---- MODULE Spec2Model ----
(***************************************************************************)
(* Model of the recorder's long-term statistics engine                     *)
(* (homeassistant/components/recorder/statistics.py and tasks.py).         *)
(*                                                                         *)
(* Timestamps are integer seconds counted from an hour boundary H = 0.     *)
(* Column values (mean, min, max, state, sum) are exact rationals          *)
(* [n, d]; the SQL NULL / Python None is the record Null (d = 0).          *)
(***************************************************************************)
EXTENDS Integers, Sequences, FiniteSets, TLC

VARIABLES
    meta,       \* statistics_meta table: set of rows [id, statistic_id, ...]
    short,      \* statistics_short_term table: set of rows
    long,       \* statistics table (hourly): set of rows
    runs,       \* statistics_runs table: set of rows [run_id, start]
    queue,      \* the recorder's task queue (FIFO of task records)
    nops,       \* number of operations performed so far (bounds the model)
    last,       \* the last operation performed and what it returned
    job         \* the local variables of the job the recorder thread is in

vars == <<meta, short, long, runs, queue, nops, last, job>>
tables == <<meta, short, long, runs>>

----------------------------------------------------------------------------
(* Bounds of the model *)

MaxOps == 3
\* SpecRollup: the 5-minute periods compiled in a row, and how many of them
\* may be periods in which a sensor reported nothing or no mean
MaxPeriods == 12
MaxGaps == 2
\* SpecImportApi: the rows of a submitted batch
MaxBatch == 2

----------------------------------------------------------------------------
(* Program constants *)

\* StatisticsShortTerm.duration = timedelta(minutes=5), in seconds
ShortTermDuration == 300
\* Statistics.duration = timedelta(hours=1), in seconds
LongTermDuration == 3600
\* the recorder domain (const DOMAIN)
DOMAIN_RECORDER == "recorder"

----------------------------------------------------------------------------
(* Exact rational arithmetic for the float columns *)

Null == [n |-> 0, d |-> 0]
IsNull(v) == v.d = 0
R(i) == [n |-> i, d |-> 1]

Abs(i) == IF i < 0 THEN -i ELSE i

RECURSIVE GCD(_, _)
GCD(a, b) == IF b = 0 THEN a ELSE GCD(b, a % b)

Norm(n, d) ==
    LET g == GCD(Abs(n), d)
    IN  IF n = 0 THEN [n |-> 0, d |-> 1] ELSE [n |-> n \div g, d |-> d \div g]

RAdd(a, b) == Norm(a.n * b.d + b.n * a.d, a.d * b.d)
RSub(a, b) == Norm(a.n * b.d - b.n * a.d, a.d * b.d)
RMulInt(a, k) == Norm(a.n * k, a.d)
RDivInt(a, k) == Norm(a.n, a.d * k)
RDiv(a, b) == IF b.n < 0 THEN Norm(-(a.n * b.d), a.d * (-b.n))
              ELSE Norm(a.n * b.d, a.d * b.n)
RLess(a, b) == a.n * b.d < b.n * a.d
RLeq(a, b) == a.n * b.d <= b.n * a.d
RMax(a, b) == IF RLess(a, b) THEN b ELSE a
RMin(a, b) == IF RLess(b, a) THEN b ELSE a

\* SQL "sum + adj": NULL stays NULL
SqlAdd(a, b) == IF IsNull(a) \/ IsNull(b) THEN Null ELSE RAdd(a, b)

----------------------------------------------------------------------------
(* datetime helpers on integer seconds *)

Minute(ts) == (ts % 3600) \div 60
Second(ts) == ts % 60
\* datetime.replace(minute=0): seconds (and microseconds) are kept
ReplaceMinute0(ts) == ts - Minute(ts) * 60
\* datetime.replace(minute=0, second=0, microsecond=0)
ReplaceMinSec0(ts) == ts - (ts % 3600)
\* minute - minute % 5, second=0, microsecond=0
Floor5Min(ts) == ts - (ts % 300)

----------------------------------------------------------------------------
(* Rows and SQL aggregates *)

ValueFields == {"mean", "min", "max", "last_reset", "state", "sum"}

\* dict.get(key): an absent key reads as None
Get(d, k) == IF k \in DOMAIN d THEN d[k] ELSE Null

\* datetime_to_timestamp_or_none on an optional last_reset
\* (last_reset is carried as a rational timestamp or Null)
datetime_to_timestamp_or_none(v) == v

NextId(table) ==
    IF table = {} THEN 1
    ELSE 1 + (CHOOSE m \in {r.id : r \in table} :
                 \A r \in table : r.id <= m)

\* StatisticsBase.from_stats(metadata_id, stats)
from_stats(id, metadata_id, stats) ==
    [id |-> id,
     metadata_id |-> metadata_id,
     start_ts |-> stats.start,
     mean |-> Get(stats, "mean"),
     min |-> Get(stats, "min"),
     max |-> Get(stats, "max"),
     last_reset_ts |-> datetime_to_timestamp_or_none(Get(stats, "last_reset")),
     state |-> Get(stats, "state"),
     sum |-> Get(stats, "sum")]

\* StatisticsBase.from_stats_ts(metadata_id, summary_item)
from_stats_ts(id, metadata_id, item) ==
    [id |-> id,
     metadata_id |-> metadata_id,
     start_ts |-> item.start_ts,
     mean |-> Get(item, "mean"),
     min |-> Get(item, "min"),
     max |-> Get(item, "max"),
     last_reset_ts |-> Get(item, "last_reset_ts"),
     state |-> Get(item, "state"),
     sum |-> Get(item, "sum")]

RECURSIVE SumCol(_, _)
SumCol(rows, col) ==
    IF rows = {} THEN R(0)
    ELSE LET r == CHOOSE x \in rows : TRUE
         IN  IF IsNull(r[col]) THEN SumCol(rows \ {r}, col)
             ELSE RAdd(r[col], SumCol(rows \ {r}, col))

\* func.count(col): the number of rows whose col is not NULL
CountCol(rows, col) == Cardinality({r \in rows : ~IsNull(r[col])})

\* func.avg(col): NULL when no row has a non-NULL col
AvgCol(rows, col) ==
    IF CountCol(rows, col) = 0 THEN Null
    ELSE RDivInt(SumCol(rows, col), CountCol(rows, col))

\* func.min(col) / func.max(col): NULL when no row has a non-NULL col
MinCol(rows, col) ==
    LET vs == {r[col] : r \in {x \in rows : ~IsNull(x[col])}}
    IN  IF vs = {} THEN Null ELSE CHOOSE v \in vs : \A w \in vs : RLeq(v, w)

MaxCol(rows, col) ==
    LET vs == {r[col] : r \in {x \in rows : ~IsNull(x[col])}}
    IN  IF vs = {} THEN Null ELSE CHOOSE v \in vs : \A w \in vs : RLeq(w, v)

\* the unique index on (metadata_id, start_ts) of a statistics table
UniqueIndexOk(table) ==
    \A r1, r2 \in table :
        (r1.metadata_id = r2.metadata_id /\ r1.start_ts = r2.start_ts)
            => r1.id = r2.id

----------------------------------------------------------------------------
(* Metadata manager (table_managers/statistics_meta.py) *)

\* get_many(session, statistic_ids): the stored rows of these statistic ids
get_many(metaTable, statistic_ids) ==
    {m \in metaTable : m.statistic_id \in statistic_ids}

MetaRow(id, d) ==
    [id |-> id,
     statistic_id |-> d.statistic_id,
     source |-> d.source,
     unit_of_measurement |-> d.unit_of_measurement,
     has_mean |-> d.has_mean,
     has_sum |-> d.has_sum]

\* update_or_add(session, new_metadata, old_metadata_dict): adds the
\* descriptor when old_metadata_dict has none for its statistic_id, replaces
\* the stored one in place when a field differs; the statistic_id is
\* reported as modified when the unit changed
update_or_add(metaTable, new_metadata, old_metadata_dict) ==
    LET olds == {m \in old_metadata_dict :
                    m.statistic_id = new_metadata.statistic_id}
    IN  IF olds = {}
        THEN LET id == NextId(metaTable)
             IN  [meta |-> metaTable \cup {MetaRow(id, new_metadata)},
                  modified |-> {},
                  metadata_id |-> id]
        ELSE LET old == CHOOSE m \in olds : TRUE
                 new == MetaRow(old.id, new_metadata)
             IN  [meta |-> IF new = old THEN metaTable
                           ELSE (metaTable \ {old}) \cup {new},
                  modified |->
                      IF new.unit_of_measurement # old.unit_of_measurement
                      THEN {new.statistic_id} ELSE {},
                  metadata_id |-> old.id]

----------------------------------------------------------------------------
(* The database session *)

\* the tables as one session sees them (committed rows plus its own writes)
Db == [meta |-> meta, short |-> short, long |-> long, runs |-> runs]

\* the unique index on statistic_id of statistics_meta
MetaIndexOk(metaTable) ==
    \A m1, m2 \in metaTable : m1.statistic_id = m2.statistic_id => m1.id = m2.id

\* flush: the unique indexes accept the writes of the session
IntegrityOk(db) ==
    UniqueIndexOk(db.short) /\ UniqueIndexOk(db.long) /\ MetaIndexOk(db.meta)

\* mutant: the writes are committed although the flush failed
session_scope_commit_always(db) == db

\* session_scope with the unique-constraint exception filter: the writes
\* are committed, or all of them are rolled back on an IntegrityError
session_scope(db) == IF IntegrityOk(db) THEN db ELSE Db

\* _insert_statistics(session, table, metadata_id, statistic)
_insert_statistics(table, metadata_id, statistic) ==
    table \cup {from_stats(NextId(table), metadata_id, statistic)}

----------------------------------------------------------------------------
(* Compaction *)

\* the grouped summary_mean statement: one (avg, min, max) per metadata_id
\* with short-term rows in [start_time_ts, end_time_ts)
summary_mean_stmt(shortTable, start_time_ts, end_time_ts) ==
    LET rows == {r \in shortTable :
                    r.start_ts >= start_time_ts /\ r.start_ts < end_time_ts}
        mids == {r.metadata_id : r \in rows}
        of(mid) == {r \in rows : r.metadata_id = mid}
    IN  [mid \in mids |->
            [start_ts |-> start_time_ts,
             mean |-> AvgCol(of(mid), "mean"),
             min |-> MinCol(of(mid), "min"),
             max |-> MaxCol(of(mid), "max")]]

\* mutant: the window orders by start_ts ascending
last_sum_stmt_oldest(shortTable, start_time_ts, end_time_ts) ==
    LET rows == {r \in shortTable :
                    r.start_ts >= start_time_ts /\ r.start_ts < end_time_ts}
        mids == {r.metadata_id : r \in rows}
        of(mid) == {r \in rows : r.metadata_id = mid}
    IN  [mid \in mids |->
            CHOOSE r \in of(mid) : \A q \in of(mid) : q.start_ts >= r.start_ts]

\* the last_sum statement: per metadata_id the row with rownum = 1 in
\* descending start_ts order
last_sum_stmt(shortTable, start_time_ts, end_time_ts) ==
    LET rows == {r \in shortTable :
                    r.start_ts >= start_time_ts /\ r.start_ts < end_time_ts}
        mids == {r.metadata_id : r \in rows}
        of(mid) == {r \in rows : r.metadata_id = mid}
    IN  [mid \in mids |->
            CHOOSE r \in of(mid) : \A q \in of(mid) : q.start_ts <= r.start_ts]

RECURSIVE AddAll(_, _, _)
\* session.add_all(Statistics.from_stats_ts(...) for ... in summary.items())
AddAll(table, summary, mids) ==
    IF mids = {} THEN table
    ELSE LET mid == CHOOSE m \in mids : \A k \in mids : m <= k
         IN  AddAll(table \cup {from_stats_ts(NextId(table), mid, summary[mid])},
                    summary, mids \ {mid})

\* mutant: the hour is taken to start at start
compile_hourly_statistics_from_start(db, start) ==
    LET means == summary_mean_stmt(db.short, start, start + LongTermDuration)
    IN  [db EXCEPT !.long = AddAll(db.long, means, DOMAIN means)]

_compile_hourly_statistics(db, start) ==
    LET start_time_ts == ReplaceMinute0(start)
        end_time_ts == start_time_ts + LongTermDuration
        means == summary_mean_stmt(db.short, start_time_ts, end_time_ts)
        sums == last_sum_stmt(db.short, start_time_ts, end_time_ts)
        summary ==
            [mid \in (DOMAIN means) \cup (DOMAIN sums) |->
                IF mid \in DOMAIN means
                THEN IF mid \in DOMAIN sums
                     THEN [start_ts |-> start_time_ts,
                           mean |-> means[mid].mean,
                           min |-> means[mid].min,
                           max |-> means[mid].max,
                           last_reset_ts |-> sums[mid].last_reset_ts,
                           state |-> sums[mid].state,
                           sum |-> sums[mid].sum]
                     ELSE means[mid]
                ELSE [start_ts |-> start_time_ts,
                      last_reset_ts |-> sums[mid].last_reset_ts,
                      state |-> sums[mid].state,
                      sum |-> sums[mid].sum]]
    IN  [db EXCEPT !.long = AddAll(db.long, summary, DOMAIN summary)]

RECURSIVE InsertPlatformStats(_, _, _)
\* the loop over platform_stats: update_or_add, then _insert_statistics
InsertPlatformStats(acc, platform_stats, current_metadata) ==
    IF platform_stats = <<>> THEN acc
    ELSE LET stats == Head(platform_stats)
             u == update_or_add(acc.db.meta, stats.meta, current_metadata)
             db1 == [acc.db EXCEPT
                        !.meta = u.meta,
                        !.short = _insert_statistics(acc.db.short,
                                                     u.metadata_id, stats.stat)]
         IN  InsertPlatformStats(
                 [db |-> db1, modified |-> acc.modified \cup u.modified],
                 Tail(platform_stats), current_metadata)

RunMarkerExists(db, start) == \E r \in db.runs : r.start = start

NextRunId(runTable) ==
    IF runTable = {} THEN 1
    ELSE 1 + (CHOOSE m \in {r.run_id : r \in runTable} :
                 \A r \in runTable : r.run_id <= m)

\* the short-term rows the two statements of the rollup select:
\* start_time_ts <= start_ts < end_time_ts
HourlyRows(db, start) ==
    {r \in db.short : /\ r.start_ts >= ReplaceMinute0(start)
                      /\ r.start_ts < ReplaceMinute0(start) + LongTermDuration}

\* mutant: the rollup reads what was committed before the transaction
rollup_session_committed_only(db, pending) == db

\* what the queries of the rollup read: the session they run in, with the
\* inserts of the same transaction
RollupSession(db, pending) == pending

EVENT_RECORDER_5MIN_STATISTICS_GENERATED == "recorder_5min_statistics_generated"

EVENT_RECORDER_HOURLY_STATISTICS_GENERATED == "recorder_hourly_statistics_generated"

\* the body of _compile_statistics after the RunMarker check
CompileBody(db, start, fire_events, platform_stats) ==
    LET ins == InsertPlatformStats([db |-> db, modified |-> {}],
                                   platform_stats, db.meta)
        seen == RollupSession(db, ins.db)
        db2 == IF Minute(start) = 55
               THEN [ins.db EXCEPT
                       !.long = _compile_hourly_statistics(
                                    [seen EXCEPT !.long = ins.db.long],
                                    start).long]
               ELSE ins.db
        db3 == [db2 EXCEPT !.runs = db2.runs \cup
                   {[run_id |-> NextRunId(db2.runs), start |-> start]}]
    IN  [db |-> db3,
         modified |-> ins.modified,
         skipped |-> FALSE,
         hourly |-> Minute(start) = 55,
         hourly_rows |-> IF Minute(start) = 55 THEN HourlyRows(seen, start)
                         ELSE {},
         hourly_added |-> db2.long \ ins.db.long,
         \* the queries of the rollup flush the pending inserts: a
         \* unique-constraint violation is raised inside the body
         raised |-> Minute(start) = 55 /\ ~IntegrityOk(ins.db),
         \* hass.bus.fire, reached when the body did not raise
         events |-> IF ~fire_events \/ (Minute(start) = 55 /\ ~IntegrityOk(ins.db))
                    THEN {}
                    ELSE {EVENT_RECORDER_5MIN_STATISTICS_GENERATED}
                         \cup (IF Minute(start) = 55
                               THEN {EVENT_RECORDER_HOURLY_STATISTICS_GENERATED}
                               ELSE {})]

\* mutant: the RunMarker check is left out
compile_statistics_unguarded(db, start, fire_events, platform_stats) ==
    CompileBody(db, start, fire_events, platform_stats)

_compile_statistics(db, start, fire_events, platform_stats) ==
    IF RunMarkerExists(db, start)
    THEN [db |-> db, modified |-> {}, skipped |-> TRUE, hourly |-> FALSE,
          hourly_rows |-> {}, hourly_added |-> {}, raised |-> FALSE,
          events |-> {}]
    ELSE CompileBody(db, start, fire_events, platform_stats)

\* compile_statistics: what the job returns. An exception the session
\* scope swallows inside the with block leaves modified_statistic_ids
\* unbound, and "if modified_statistic_ids:" raises; a violation at the
\* commit that ends the block is swallowed after the assignment
compile_statistics_returns(res) ==
    IF res.raised THEN "UnboundLocalError" ELSE "True"

----------------------------------------------------------------------------
(* Unit conversion (homeassistant/util/unit_conversion.py) *)

\* converter.VALID_UNITS of the converter STATISTIC_UNIT_TO_UNIT_CONVERTER
\* maps the unit to; the empty set when the unit has no converter
ValidUnits(unit) ==
    IF unit \in {"Wh", "kWh"} THEN {"Wh", "kWh"}
    ELSE IF unit \in {"W", "kW"} THEN {"W", "kW"}
    ELSE {}

\* the size of a unit in the base unit of its class
UnitScale(unit) == IF unit \in {"kWh", "kW"} THEN 1000 ELSE 1

\* converter.convert(value, from_unit, to_unit)
convert(value, from_unit, to_unit) ==
    RDivInt(RMulInt(value, UnitScale(from_unit)), UnitScale(to_unit))

----------------------------------------------------------------------------
(* Import *)

\* _statistics_exists: the id of a row of (metadata_id, start), or 0 (None)
_statistics_exists(table, metadata_id, start) ==
    LET found == {r \in table : r.metadata_id = metadata_id /\ r.start_ts = start}
    IN  IF found = {} THEN 0 ELSE (CHOOSE r \in found : TRUE).id

\* mutant: a column absent from the imported row keeps its old value
update_statistics_keep_absent(table, stat_id, statistic) ==
    {IF r.id = stat_id
     THEN [r EXCEPT
              !.mean = IF "mean" \in DOMAIN statistic THEN statistic.mean ELSE @,
              !.min = IF "min" \in DOMAIN statistic THEN statistic.min ELSE @,
              !.max = IF "max" \in DOMAIN statistic THEN statistic.max ELSE @,
              !.last_reset_ts = IF "last_reset" \in DOMAIN statistic
                                THEN statistic.last_reset ELSE @,
              !.state = IF "state" \in DOMAIN statistic THEN statistic.state ELSE @,
              !.sum = IF "sum" \in DOMAIN statistic THEN statistic.sum ELSE @]
     ELSE r : r \in table}

\* _update_statistics: every value column is set from statistic.get(...)
_update_statistics(table, stat_id, statistic) ==
    {IF r.id = stat_id
     THEN [r EXCEPT
              !.mean = Get(statistic, "mean"),
              !.min = Get(statistic, "min"),
              !.max = Get(statistic, "max"),
              !.last_reset_ts =
                  datetime_to_timestamp_or_none(Get(statistic, "last_reset")),
              !.state = Get(statistic, "state"),
              !.sum = Get(statistic, "sum")]
     ELSE r : r \in table}

\* one pass of the loop of _import_statistics_with_session
ImportRow(table, metadata_id, stat) ==
    LET stat_id == _statistics_exists(table, metadata_id, stat.start)
    IN  IF stat_id # 0
        THEN _update_statistics(table, stat_id, stat)
        ELSE _insert_statistics(table, metadata_id, stat)

RECURSIVE ImportRows(_, _, _)
ImportRows(table, metadata_id, statistics) ==
    IF statistics = <<>> THEN table
    ELSE ImportRows(ImportRow(table, metadata_id, Head(statistics)),
                    metadata_id, Tail(statistics))

_import_statistics_with_session(db, metadata, statistics, table) ==
    LET old_metadata_dict == get_many(db.meta, {metadata.statistic_id})
        u == update_or_add(db.meta, metadata, old_metadata_dict)
    IN  [db EXCEPT
            !.meta = u.meta,
            ![table] = ImportRows(db[table], u.metadata_id, statistics)]

----------------------------------------------------------------------------
(* Adjust *)

\* mutant: the row that starts at start_time is left out
adjust_sum_statistics_strictly_after(table, metadata_id, start_time, adj) ==
    {IF r.metadata_id = metadata_id /\ r.start_ts > start_time
     THEN [r EXCEPT !.sum = SqlAdd(r.sum, adj)]
     ELSE r : r \in table}

\* _adjust_sum_statistics: sum = sum + adj where start_ts >= start_time
_adjust_sum_statistics(table, metadata_id, start_time, adj) ==
    {IF r.metadata_id = metadata_id /\ r.start_ts >= start_time
     THEN [r EXCEPT !.sum = SqlAdd(r.sum, adj)]
     ELSE r : r \in table}

\* _get_display_to_statistic_unit_converter applied to val; the converter
\* raises when display_unit is not a unit of the statistic unit's class
DisplayToStatisticRaises(display_unit, statistic_unit) ==
    /\ ValidUnits(statistic_unit) # {}
    /\ display_unit \notin ValidUnits(statistic_unit)

DisplayToStatistic(val, display_unit, statistic_unit) ==
    IF ValidUnits(statistic_unit) = {} THEN val
    ELSE convert(val, display_unit, statistic_unit)

\* the long-term boundary of adjust_statistics
AdjustLongStart(start_time) == ReplaceMinute0(start_time)

adjust_statistics(db, statistic_id, start_time, sum_adjustment, adjustment_unit) ==
    LET metadata == get_many(db.meta, {statistic_id})
    IN  IF metadata = {} THEN db
        ELSE LET m == CHOOSE x \in metadata : TRUE
                 adj == DisplayToStatistic(sum_adjustment, adjustment_unit,
                                           m.unit_of_measurement)
             IN  IF DisplayToStatisticRaises(adjustment_unit,
                                             m.unit_of_measurement)
                 THEN db
                 ELSE [db EXCEPT
                          !.short = _adjust_sum_statistics(
                                        db.short, m.id, start_time, adj),
                          !.long = _adjust_sum_statistics(
                                        db.long, m.id,
                                        AdjustLongStart(start_time), adj)]

\* mutant: a statistic_id without metadata is reported
adjust_statistics_raises_when_unknown(db, statistic_id, adjustment_unit) ==
    IF get_many(db.meta, {statistic_id}) = {} THEN "HomeAssistantError"
    ELSE "True"

\* what adjust_statistics reports to AdjustStatisticsTask.run: True, also
\* for a statistic_id without metadata, or the error the converter raises
adjust_statistics_returns(db, statistic_id, adjustment_unit) ==
    LET metadata == get_many(db.meta, {statistic_id})
    IN  IF metadata = {} THEN "True"
        ELSE IF DisplayToStatisticRaises(
                    adjustment_unit,
                    (CHOOSE m \in metadata : TRUE).unit_of_measurement)
        THEN "HomeAssistantError"
        ELSE "True"

----------------------------------------------------------------------------
(* Change unit *)

\* _get_unit_converter raises when no converter holds both units
UnitConverterRaises(from_unit, to_unit) == to_unit \notin ValidUnits(from_unit)

\* convert_units: None stays None
convert_units(val, from_unit, to_unit) ==
    IF IsNull(val) THEN val ELSE convert(val, from_unit, to_unit)

_change_statistics_unit_for_table(table, metadata_id, old_unit, new_unit) ==
    {IF r.metadata_id = metadata_id
     THEN [r EXCEPT
              !.mean = convert_units(@, old_unit, new_unit),
              !.min = convert_units(@, old_unit, new_unit),
              !.max = convert_units(@, old_unit, new_unit),
              !.state = convert_units(@, old_unit, new_unit),
              !.sum = convert_units(@, old_unit, new_unit)]
     ELSE r : r \in table}

\* StatisticsMetaManager.update_unit_of_measurement
update_unit_of_measurement(metaTable, statistic_id, new_unit) ==
    {IF m.statistic_id = statistic_id
     THEN [m EXCEPT !.unit_of_measurement = new_unit]
     ELSE m : m \in metaTable}

\* mutant: the stored unit is not compared with old_unit
change_statistics_unit_any_stored_unit(db, statistic_id, new_unit, old_unit) ==
    LET metadata == get_many(db.meta, {statistic_id})
    IN  IF \/ metadata = {}
           \/ \E m \in metadata : m.source # DOMAIN_RECORDER
           \/ UnitConverterRaises(old_unit, new_unit)
        THEN db
        ELSE LET metadata_id == (CHOOSE m \in metadata : TRUE).id
             IN  [db EXCEPT
                     !.long = _change_statistics_unit_for_table(
                                  db.long, metadata_id, old_unit, new_unit),
                     !.short = _change_statistics_unit_for_table(
                                  db.short, metadata_id, old_unit, new_unit),
                     !.meta = update_unit_of_measurement(
                                  db.meta, statistic_id, new_unit)]

change_statistics_unit(db, statistic_id, new_unit, old_unit) ==
    LET metadata == get_many(db.meta, {statistic_id})
    IN  IF \/ metadata = {}
           \/ \E m \in metadata :
                 \/ m.source # DOMAIN_RECORDER
                 \/ m.unit_of_measurement # old_unit
           \/ UnitConverterRaises(old_unit, new_unit)
        THEN db
        ELSE LET metadata_id == (CHOOSE m \in metadata : TRUE).id
             IN  [db EXCEPT
                     !.long = _change_statistics_unit_for_table(
                                  db.long, metadata_id, old_unit, new_unit),
                     !.short = _change_statistics_unit_for_table(
                                  db.short, metadata_id, old_unit, new_unit),
                     !.meta = update_unit_of_measurement(
                                  db.meta, statistic_id, new_unit)]

----------------------------------------------------------------------------
\* what change_statistics_unit reports: its guard logs a warning and
\* returns None, as the function does at its end; _get_unit_converter raises
change_statistics_unit_returns(db, statistic_id, new_unit, old_unit) ==
    LET metadata == get_many(db.meta, {statistic_id})
    IN  IF \/ metadata = {}
           \/ \E m \in metadata :
                 \/ m.source # DOMAIN_RECORDER
                 \/ m.unit_of_measurement # old_unit
        THEN [returned |-> "None", warning |-> TRUE]
        ELSE IF UnitConverterRaises(old_unit, new_unit)
        THEN [returned |-> "HomeAssistantError", warning |-> FALSE]
        ELSE [returned |-> "None", warning |-> FALSE]

----------------------------------------------------------------------------
(* What the platforms report *)

EnergyMeta(unit) ==
    [statistic_id |-> "sensor.energy", source |-> DOMAIN_RECORDER,
     unit_of_measurement |-> unit, has_mean |-> FALSE, has_sum |-> TRUE]

PowerMeta ==
    [statistic_id |-> "sensor.power", source |-> DOMAIN_RECORDER,
     unit_of_measurement |-> "W", has_mean |-> TRUE, has_sum |-> FALSE]

Slot(start) == start \div ShortTermDuration

\* a sum statistic: the meter total grows by one per 5-minute period
EnergyStat(start) ==
    [start |-> start, last_reset |-> R((Slot(start) \div 6) * 1800),
     state |-> R(Slot(start) + 1), sum |-> R(Slot(start) + 1)]

\* a mean statistic: the means alternate 10, 20, 10, 20, ... in the first
\* hour and lie 30 higher in every later hour
PowerMean(start) ==
    (IF Slot(start) % 2 = 0 THEN 10 ELSE 20) + 30 * (start \div LongTermDuration)

PowerStat(start, spread) ==
    [start |-> start, mean |-> R(PowerMean(start)),
     min |-> R(PowerMean(start) - spread),
     max |-> R(PowerMean(start) + spread)]

\* a period in which the sensor had no numeric state for the mean
PowerStatNoMean(start) ==
    [start |-> start, mean |-> Null, min |-> Null, max |-> Null]

PlatformStats(start) ==
    { <<>>,
      << [meta |-> PowerMeta, stat |-> PowerStat(start, 1)] >>,
      << [meta |-> EnergyMeta("kWh"), stat |-> EnergyStat(start)] >>,
      << [meta |-> EnergyMeta("Wh"), stat |-> EnergyStat(start)] >>,
      << [meta |-> PowerMeta, stat |-> PowerStat(start, 1)],
         [meta |-> EnergyMeta("kWh"), stat |-> EnergyStat(start)] >>,
      << [meta |-> EnergyMeta("kWh"), stat |-> EnergyStat(start)],
         [meta |-> EnergyMeta("kWh"), stat |-> EnergyStat(start)] >> }

CompileStarts == {3000, 3300}

----------------------------------------------------------------------------
(* Tasks run by the recorder thread *)

\* StatisticsTask.run -> compile_statistics(instance, start, fire_events)
StatisticsTask_run(start, fire_events, platform_stats) ==
    \E res \in {_compile_statistics(Db, start, fire_events, platform_stats)} :
      \E db \in {session_scope(res.db)} :
        /\ meta' = db.meta
        /\ short' = db.short
        /\ long' = db.long
        /\ runs' = db.runs
        /\ last' = [op |-> "compile_statistics",
                    start |-> start,
                    nstats |-> Len(platform_stats),
                    skipped |-> res.skipped,
                    hourly |-> res.hourly,
                    hourly_rows |-> res.hourly_rows,
                    hourly_added |-> res.hourly_added,
                    raised |-> res.raised,
                    fire_events |-> fire_events,
                    events |-> res.events,
                    committed |-> IntegrityOk(res.db),
                    modified |-> res.modified,
                    returned |-> compile_statistics_returns(res)]

CompileStatistics ==
    /\ nops < MaxOps
    /\ \E start \in CompileStarts :
         \E ps \in PlatformStats(start), fire_events \in BOOLEAN :
           StatisticsTask_run(start, fire_events, ps)
    /\ nops' = nops + 1
    /\ UNCHANGED <<queue, job>>

\* ImportStatisticsTask.run -> import_statistics(metadata, statistics, table)
ImportStatisticsTask_run(metadata, statistics, table) ==
    LET res == _import_statistics_with_session(Db, metadata, statistics, table)
        db == session_scope(res)
    IN  /\ meta' = db.meta
        /\ short' = db.short
        /\ long' = db.long
        /\ runs' = db.runs
        /\ last' = [op |-> "import_statistics",
                    metadata |-> metadata,
                    statistics |-> statistics,
                    table |-> table,
                    committed |-> IntegrityOk(res),
                    returned |-> "True"]

\* AdjustStatisticsTask.run -> adjust_statistics(...)
AdjustStatisticsTask_run(statistic_id, start_time, sum_adjustment, unit) ==
    LET db == adjust_statistics(Db, statistic_id, start_time,
                                sum_adjustment, unit)
    IN  /\ meta' = db.meta
        /\ short' = db.short
        /\ long' = db.long
        /\ runs' = db.runs
        /\ last' = [op |-> "adjust_statistics",
                    statistic_id |-> statistic_id,
                    start_time |-> start_time,
                    sum_adjustment |-> sum_adjustment,
                    adjustment_unit |-> unit,
                    returned |-> adjust_statistics_returns(Db, statistic_id,
                                                           unit)]

GridMeta ==
    [statistic_id |-> "grid:energy", source |-> "grid",
     unit_of_measurement |-> "kWh", has_mean |-> FALSE, has_sum |-> TRUE]

\* hourly rows as the import API hands them over (start in UTC)
ImportBatches ==
    { << [start |-> 0, state |-> R(100), sum |-> R(100)] >>,
      << [start |-> 0, sum |-> R(100)],
         [start |-> 3600, sum |-> R(150)],
         [start |-> 7200, sum |-> R(200)] >>,
      << [start |-> 0, state |-> R(1), sum |-> R(100)],
         [start |-> 0, sum |-> R(120)] >> }

ImportStatistics ==
    /\ nops < MaxOps
    /\ \E metadata \in {GridMeta, EnergyMeta("kWh")} :
         \E statistics \in ImportBatches :
           ImportStatisticsTask_run(metadata, statistics, "long")
    /\ nops' = nops + 1
    /\ UNCHANGED <<queue, job>>

AdjustInputs ==
    { [statistic_id |-> "sensor.energy", start_time |-> 3000, unit |-> "kWh"],
      [statistic_id |-> "sensor.energy", start_time |-> 3315, unit |-> "Wh"],
      [statistic_id |-> "grid:energy", start_time |-> 3600, unit |-> "kWh"],
      [statistic_id |-> "grid:energy", start_time |-> 5400, unit |-> "W"] }

AdjustStatistics ==
    /\ nops < MaxOps
    /\ \E a \in AdjustInputs :
           AdjustStatisticsTask_run(a.statistic_id, a.start_time, R(5), a.unit)
    /\ nops' = nops + 1
    /\ UNCHANGED <<queue, job>>

\* ChangeStatisticsUnitTask.run -> change_statistics_unit(...)
ChangeStatisticsUnitTask_run(statistic_id, new_unit, old_unit) ==
    LET db == change_statistics_unit(Db, statistic_id, new_unit, old_unit)
    IN  /\ meta' = db.meta
        /\ short' = db.short
        /\ long' = db.long
        /\ runs' = db.runs
        /\ last' = [op |-> "change_statistics_unit",
                    statistic_id |-> statistic_id,
                    new_unit |-> new_unit,
                    old_unit |-> old_unit,
                    returned |-> change_statistics_unit_returns(
                                     Db, statistic_id, new_unit,
                                     old_unit).returned,
                    warning |-> change_statistics_unit_returns(
                                    Db, statistic_id, new_unit,
                                    old_unit).warning]

ChangeUnitInputs ==
    { [statistic_id |-> "sensor.energy", new_unit |-> "Wh", old_unit |-> "kWh"],
      [statistic_id |-> "sensor.energy", new_unit |-> "kWh", old_unit |-> "Wh"],
      [statistic_id |-> "grid:energy", new_unit |-> "Wh", old_unit |-> "kWh"] }

ChangeStatisticsUnit ==
    /\ nops < MaxOps
    /\ \E c \in ChangeUnitInputs :
           ChangeStatisticsUnitTask_run(c.statistic_id, c.new_unit, c.old_unit)
    /\ nops' = nops + 1
    /\ UNCHANGED <<queue, job>>

----------------------------------------------------------------------------
Init ==
    /\ meta = {}
    /\ short = {}
    /\ long = {}
    /\ runs = {}
    /\ queue = <<>>
    /\ nops = 0
    /\ last = [op |-> "init"]
    /\ job = [pc |-> "idle"]

Next ==
    \/ CompileStatistics
    \/ ImportStatistics
    \/ AdjustStatistics
    \/ ChangeStatisticsUnit

Spec == Init /\ [][Next]_vars

----------------------------------------------------------------------------
(* SpecRollup: the recorder compiles one 5-minute period after the other *)

FullPeriod(start) ==
    << [meta |-> PowerMeta, stat |-> PowerStat(start, 0)],
       [meta |-> EnergyMeta("kWh"), stat |-> EnergyStat(start)] >>

GapPeriods(start) ==
    { <<>>,
      << [meta |-> PowerMeta, stat |-> PowerStatNoMean(start)],
         [meta |-> EnergyMeta("kWh"), stat |-> EnergyStat(start)] >>,
      << [meta |-> PowerMeta, stat |-> PowerStat(start, 1)] >> }

\* the compiled periods that were not full ones
Gaps ==
    Cardinality({r \in runs :
        ~ /\ \E x \in short : /\ x.start_ts = r.start
                              /\ ~IsNull(x.mean)
                              /\ x.min = x.mean
          /\ \E x \in short : x.start_ts = r.start /\ ~IsNull(x.sum)})

CompileNextPeriod ==
    /\ nops < MaxPeriods
    /\ \E ps \in {FullPeriod(nops * ShortTermDuration)}
                 \cup (IF Gaps < MaxGaps
                       THEN GapPeriods(nops * ShortTermDuration) ELSE {}) :
           StatisticsTask_run(nops * ShortTermDuration, TRUE, ps)
    /\ nops' = nops + 1
    /\ UNCHANGED <<queue, job>>

NextRollup == CompileNextPeriod

SpecRollup == Init /\ [][NextRollup]_vars

----------------------------------------------------------------------------
(* Statistic ids *)

SlugChars ==
    {"0", "1", "2", "3", "4", "5", "6", "7", "8", "9", "_",
     "a", "b", "c", "d", "e", "f", "g", "h", "i", "j", "k", "l", "m",
     "n", "o", "p", "q", "r", "s", "t", "u", "v", "w", "x", "y", "z"}

\* the characters of the strings the model uses
Chars ==
    [x \in {"sensor.energy", "grid:energy", "grid:_energy", "grid__x:energy",
            "recorder:energy", "grid", "grid__x", "recorder", "sensor", "",
            "sensor.power"} |->
        CASE x = "sensor.energy" ->
                <<"s", "e", "n", "s", "o", "r", ".", "e", "n", "e", "r", "g", "y">>
          [] x = "grid:energy" ->
                <<"g", "r", "i", "d", ":", "e", "n", "e", "r", "g", "y">>
          [] x = "grid:_energy" ->
                <<"g", "r", "i", "d", ":", "_", "e", "n", "e", "r", "g", "y">>
          [] x = "grid__x:energy" ->
                <<"g", "r", "i", "d", "_", "_", "x", ":", "e", "n", "e", "r", "g", "y">>
          [] x = "recorder:energy" ->
                <<"r", "e", "c", "o", "r", "d", "e", "r", ":",
                  "e", "n", "e", "r", "g", "y">>
          [] x = "grid" -> <<"g", "r", "i", "d">>
          [] x = "grid__x" -> <<"g", "r", "i", "d", "_", "_", "x">>
          [] x = "recorder" -> <<"r", "e", "c", "o", "r", "d", "e", "r">>
          [] x = "sensor" -> <<"s", "e", "n", "s", "o", "r">>
          [] x = "sensor.power" ->
                <<"s", "e", "n", "s", "o", "r", ".", "p", "o", "w", "e", "r">>
          [] x = "" -> <<>>]

\* ^(?!.+__)(?!_)[\da-z_]+(?<!_)<sep>(?!_)[\da-z_]+(?<!_)$
MatchesSlugPair(cs, sep) ==
    /\ ~ \E j \in 2..(Len(cs) - 1) : cs[j] = "_" /\ cs[j + 1] = "_"
    /\ \E i \in 1..Len(cs) :
         /\ cs[i] = sep
         /\ i > 1 /\ i < Len(cs)
         /\ \A j \in (1..Len(cs)) \ {i} : cs[j] \in SlugChars
         /\ cs[1] # "_" /\ cs[i - 1] # "_"
         /\ cs[i + 1] # "_" /\ cs[Len(cs)] # "_"

\* VALID_STATISTIC_ID.match(statistic_id) is not None
valid_statistic_id(statistic_id) == MatchesSlugPair(Chars[statistic_id], ":")

\* homeassistant.core.valid_entity_id
valid_entity_id(entity_id) == MatchesSlugPair(Chars[entity_id], ".")

\* split_statistic_id(statistic_id)[0]: the characters before the first ":"
split_statistic_id_domain(statistic_id) ==
    LET cs == Chars[statistic_id]
        i == CHOOSE k \in 1..Len(cs) :
                 cs[k] = ":" /\ \A j \in 1..(k - 1) : cs[j] # ":"
    IN  SubSeq(cs, 1, i - 1)

----------------------------------------------------------------------------
(* statistic_during_period *)

\* None where a datetime is optional
NoTime == -1

Duration(table) == IF table = "short" THEN ShortTermDuration ELSE LongTermDuration

\* the rows of metadata_id with start_time <= start_ts < end_time, a bound
\* that is None being left out
SubPeriodRows(db, table, metadata_id, start_time, end_time) ==
    {r \in db[table] :
        /\ r.metadata_id = metadata_id
        /\ start_time # NoTime => r.start_ts >= start_time
        /\ end_time # NoTime => r.start_ts < end_time}

\* _first_statistic: start of the oldest row of metadata_id, or None
_first_statistic(db, table, metadata_id) ==
    LET rows == {r \in db[table] : r.metadata_id = metadata_id}
    IN  IF rows = {} THEN NoTime
        ELSE (CHOOSE r \in rows : \A q \in rows : r.start_ts <= q.start_ts).start_ts

OptMax(new, old) == IF IsNull(old) THEN new ELSE RMax(new, old)
OptMin(new, old) == IF IsNull(old) THEN new ELSE RMin(new, old)

EmptyMaxMeanMin ==
    [max |-> Null, min |-> Null, has_mean |-> FALSE,
     duration |-> R(0), mean_acc |-> R(0)]

\* mutant: the sub-periods are weighted by their row count
sub_period_duration_row_count(count, table) == count

\* duration = row[1] * table.duration.total_seconds()
SubPeriodDuration(count, table) == count * Duration(table)

_get_max_mean_min_statistic_in_sub_period(db, result, start_time, end_time, table, types, metadata_id) ==
    LET rows == SubPeriodRows(db, table, metadata_id, start_time, end_time)
        new_max == MaxCol(rows, "max")
        new_min == MinCol(rows, "min")
        avg == AvgCol(rows, "mean")
        duration == SubPeriodDuration(CountCol(rows, "mean"), table)
        r1 == IF "max" \in types /\ ~IsNull(new_max)
              THEN [result EXCEPT !.max = OptMax(new_max, result.max)]
              ELSE result
        r2 == IF "mean" \in types /\ ~IsNull(avg)
              THEN [r1 EXCEPT
                       !.has_mean = TRUE,
                       !.duration = RAdd(r1.duration, R(duration)),
                       !.mean_acc = RAdd(r1.mean_acc, RMulInt(avg, duration))]
              ELSE r1
    IN  IF "min" \in types /\ ~IsNull(new_min)
        THEN [r2 EXCEPT !.min = OptMin(new_min, r2.min)]
        ELSE r2

\* the head, main and tail sub-periods of a query
\* p = [head_start_time, head_end_time, main_start_time, main_end_time,
\*      tail_start_time, tail_end_time, tail_only]
_get_max_mean_min_statistic(db, p, metadata_id, types) ==
    LET m0 == EmptyMaxMeanMin
        m1 == IF p.tail_start_time # NoTime
              THEN _get_max_mean_min_statistic_in_sub_period(
                       db, m0, p.tail_start_time, p.tail_end_time,
                       "short", types, metadata_id)
              ELSE m0
        m2 == IF ~p.tail_only
              THEN _get_max_mean_min_statistic_in_sub_period(
                       db, m1, p.main_start_time, p.main_end_time,
                       "long", types, metadata_id)
              ELSE m1
        m3 == IF p.head_start_time # NoTime
              THEN _get_max_mean_min_statistic_in_sub_period(
                       db, m2, p.head_start_time, p.head_end_time,
                       "short", types, metadata_id)
              ELSE m2
    IN  [t \in types \cap {"max", "mean", "min"} |->
            IF t = "max" THEN m3.max
            ELSE IF t = "min" THEN m3.min
            ELSE IF ~m3.has_mean THEN Null
            ELSE RDiv(m3.mean_acc, m3.duration)]

\* a None sum where a sum is optional
NoSum == Null

\* the period start of start_time + table.duration - timedelta.resolution,
\* one period back (times are whole seconds: the second before the end of
\* the period lies in the same period as the microsecond before it)
PrevPeriod(start_time, table) ==
    LET t == start_time + Duration(table) - 1
        period == IF table = "short" THEN Floor5Min(t) ELSE ReplaceMinSec0(t)
    IN  period - Duration(table)

_get_oldest_sum_statistic_in_sub_period(db, start_time, table, metadata_id) ==
    LET rows == {r \in db[table] :
                    /\ r.metadata_id = metadata_id
                    /\ ~IsNull(r.sum)
                    /\ start_time # NoTime =>
                           r.start_ts >= PrevPeriod(start_time, table)}
    IN  IF rows = {} THEN NoSum
        ELSE (CHOOSE r \in rows : \A q \in rows : r.start_ts <= q.start_ts).sum

\* mutant: a range that begins at the oldest row opens with that row's sum
oldest_sum_without_oldest_stat_check(db, p, oldest_stat, metadata_id) ==
    LET head == IF p.head_start_time # NoTime
                THEN _get_oldest_sum_statistic_in_sub_period(
                         db, p.head_start_time, "short", metadata_id)
                ELSE NoSum
        main == _get_oldest_sum_statistic_in_sub_period(
                    db, p.main_start_time, "long", metadata_id)
        tail == _get_oldest_sum_statistic_in_sub_period(
                    db, p.tail_start_time, "short", metadata_id)
    IN  IF ~IsNull(head) THEN head
        ELSE IF ~p.tail_only
             THEN IF ~IsNull(main) THEN main ELSE R(0)
        ELSE IF p.tail_start_time = NoTime THEN NoSum
        ELSE IF ~IsNull(tail) THEN tail
        ELSE R(0)

_get_oldest_sum_statistic(db, p, oldest_stat, metadata_id) ==
    LET head == IF p.head_start_time # NoTime
                THEN _get_oldest_sum_statistic_in_sub_period(
                         db, p.head_start_time, "short", metadata_id)
                ELSE NoSum
        main == _get_oldest_sum_statistic_in_sub_period(
                    db, p.main_start_time, "long", metadata_id)
        tail == _get_oldest_sum_statistic_in_sub_period(
                    db, p.tail_start_time, "short", metadata_id)
    IN  IF /\ ~p.tail_only
           /\ p.main_start_time # NoTime
           /\ oldest_stat # NoTime
           /\ ReplaceMinSec0(p.main_start_time) - LongTermDuration < oldest_stat
        THEN R(0)
        ELSE IF ~IsNull(head) THEN head
        ELSE IF ~p.tail_only
             THEN IF ~IsNull(main) THEN main ELSE R(0)
        \* "(tail_start_time is not None and (oldest_sum := ...)) is not None"
        \* is True when tail_start_time is None: oldest_sum (None) is returned
        ELSE IF p.tail_start_time = NoTime THEN NoSum
        ELSE IF ~IsNull(tail) THEN tail
        ELSE R(0)

_get_newest_sum_statistic_in_sub_period(db, start_time, end_time, table, metadata_id) ==
    LET rows == {r \in SubPeriodRows(db, table, metadata_id,
                                     start_time, end_time) : ~IsNull(r.sum)}
    IN  IF rows = {} THEN NoSum
        ELSE (CHOOSE r \in rows : \A q \in rows : q.start_ts <= r.start_ts).sum

_get_newest_sum_statistic(db, p, metadata_id) ==
    LET tail == IF p.tail_start_time # NoTime
                THEN _get_newest_sum_statistic_in_sub_period(
                         db, p.tail_start_time, p.tail_end_time,
                         "short", metadata_id)
                ELSE NoSum
        main == IF ~p.tail_only
                THEN _get_newest_sum_statistic_in_sub_period(
                         db, p.main_start_time, p.main_end_time,
                         "long", metadata_id)
                ELSE NoSum
        head == IF p.head_start_time # NoTime
                THEN _get_newest_sum_statistic_in_sub_period(
                         db, p.head_start_time, p.head_end_time,
                         "short", metadata_id)
                ELSE NoSum
    IN  IF ~IsNull(tail) THEN tail
        ELSE IF ~IsNull(main) THEN main
        ELSE head

\* the head, main and tail sub-periods statistic_during_period computes
SubPeriods(start_time, end_time0, now, oldest_stat, oldest_5_min_stat) ==
    LET end_time == IF end_time0 # NoTime /\ end_time0 > now THEN now
                    ELSE end_time0
        tail_only == /\ start_time # NoTime
                     /\ end_time # NoTime
                     /\ end_time - start_time < LongTermDuration
        head_oldest == /\ ~tail_only
                       /\ oldest_stat # NoTime
                       /\ oldest_5_min_stat # NoTime
                       /\ oldest_5_min_stat - oldest_stat < LongTermDuration
                       /\ (start_time = NoTime \/ start_time < oldest_5_min_stat)
        head_start == /\ ~head_oldest
                      /\ ~tail_only
                      /\ start_time # NoTime
                      /\ Minute(start_time) # 0
        head_start_time == IF head_oldest THEN oldest_5_min_stat
                           ELSE IF head_start THEN start_time
                           ELSE NoTime
        head_end_time == IF head_oldest
                         THEN ReplaceMinSec0(oldest_5_min_stat) + LongTermDuration
                         ELSE IF head_start
                         THEN ReplaceMinSec0(start_time) + LongTermDuration
                         ELSE NoTime
        tail_start_time == IF end_time = NoTime THEN ReplaceMinSec0(now)
                           ELSE IF Minute(end_time) # 0
                           THEN IF tail_only THEN start_time
                                ELSE ReplaceMinSec0(end_time)
                           ELSE NoTime
        tail_end_time == IF end_time # NoTime /\ Minute(end_time) # 0
                         THEN end_time ELSE NoTime
    IN  [head_start_time |-> head_start_time,
         head_end_time |-> head_end_time,
         main_start_time |-> IF tail_only THEN NoTime
                             ELSE IF head_end_time = NoTime THEN start_time
                             ELSE head_end_time,
         main_end_time |-> IF tail_only THEN NoTime
                           ELSE IF tail_start_time = NoTime THEN end_time
                           ELSE tail_start_time,
         tail_start_time |-> tail_start_time,
         tail_end_time |-> tail_end_time,
         tail_only |-> tail_only]

\* _get_statistic_to_display_unit_converter applied to value
StatisticToDisplay(value, statistic_unit, state_unit, requested_unit) ==
    LET display_unit == IF requested_unit # "None" THEN requested_unit
                        ELSE state_unit
    IN  IF \/ ValidUnits(statistic_unit) = {}
           \/ display_unit \notin ValidUnits(statistic_unit)
           \/ display_unit = statistic_unit
           \/ IsNull(value)
        THEN value
        ELSE convert(value, statistic_unit, display_unit)

\* the change of the sum over the period
Change(db, p, start_time, oldest_stat, metadata_id) ==
    LET oldest_sum == IF start_time = NoTime THEN R(0)
                      ELSE _get_oldest_sum_statistic(db, p, oldest_stat,
                                                     metadata_id)
        newest_sum == _get_newest_sum_statistic(db, p, metadata_id)
    IN  IF ~IsNull(oldest_sum) /\ ~IsNull(newest_sum)
        THEN RSub(newest_sum, oldest_sum)
        ELSE Null

\* statistic_during_period(hass, start_time, end_time, statistic_id, types,
\* units); state_unit is the unit of the live entity (the stored unit when
\* the entity has no state), requested_unit is units[unit_class] or "None"
statistic_during_period(db, now, start_time, end_time, statistic_id, types, state_unit, requested_unit) ==
    LET metadata == get_many(db.meta, {statistic_id})
    IN  IF metadata = {} THEN <<>>
        ELSE
        LET m == CHOOSE x \in metadata : TRUE
            oldest_stat == _first_statistic(db, "long", m.id)
            oldest_5_min_stat ==
                IF ~valid_statistic_id(statistic_id)
                THEN _first_statistic(db, "short", m.id)
                ELSE NoTime
            p == SubPeriods(start_time, end_time, now,
                            oldest_stat, oldest_5_min_stat)
            mmm == IF types \cap {"max", "mean", "min"} # {}
                   THEN _get_max_mean_min_statistic(db, p, m.id, types)
                   ELSE <<>>
            result == [t \in types |->
                          IF t = "change"
                          THEN Change(db, p, start_time, oldest_stat, m.id)
                          ELSE mmm[t]]
        IN  [t \in types |->
                StatisticToDisplay(result[t], m.unit_of_measurement,
                                   state_unit, requested_unit)]

----------------------------------------------------------------------------
(* SpecQuery: an external statistic is imported and possibly adjusted, the
   recorder compiles QueryPeriods 5-minute periods, then the statistics are
   queried *)

QueryPeriods == 30

GridBatch ==
    << [start |-> 0, sum |-> R(100)],
       [start |-> LongTermDuration, sum |-> R(150)],
       [start |-> 2 * LongTermDuration, sum |-> R(200)] >>

QueryImport ==
    /\ nops = 0
    /\ ImportStatisticsTask_run(GridMeta, GridBatch, "long")
    /\ nops' = nops + 1
    /\ UNCHANGED <<queue, job>>

QueryAdjust ==
    /\ nops = 1
    /\ AdjustStatisticsTask_run("grid:energy", LongTermDuration, R(5), "kWh")
    /\ nops' = nops + 1
    /\ UNCHANGED <<queue, job>>

\* the periods in which the sensors may have missed a report
QueryGapStarts == {5 * ShortTermDuration, 14 * ShortTermDuration}

QueryCompile ==
    /\ nops >= 1
    /\ Cardinality(runs) < QueryPeriods
    /\ LET start == Cardinality(runs) * ShortTermDuration
       IN  \E ps \in {FullPeriod(start)}
                     \cup (IF start \in QueryGapStarts
                           THEN GapPeriods(start) ELSE {}) :
               StatisticsTask_run(start, TRUE, ps)
    /\ nops' = nops + 1
    /\ UNCHANGED <<queue, job>>

QueryTimes ==
    {k * 600 : k \in 0..18} \cup {3300, 9300}

QueryTypes == {{"change"}, {"max", "mean", "min", "change"}}

\* the clock when the query runs
QueryNow == {QueryPeriods * ShortTermDuration, 4 * LongTermDuration}

\* one query per behaviour: a query changes no table
Query ==
    /\ Cardinality(runs) = QueryPeriods
    /\ last.op # "statistic_during_period"
    /\ \E statistic_id \in {"grid:energy", "sensor.energy", "sensor.power"} :
       \E start_time \in QueryTimes \cup {NoTime} :
       \E end_time \in QueryTimes \cup {NoTime} :
       \E now \in QueryNow :
       \E types \in QueryTypes :
         /\ start_time # NoTime /\ end_time # NoTime => start_time < end_time
         /\ last' = [op |-> "statistic_during_period",
                     statistic_id |-> statistic_id,
                     start_time |-> start_time,
                     end_time |-> end_time,
                     now |-> now,
                     types |-> types,
                     result |-> statistic_during_period(
                                    Db, now, start_time, end_time,
                                    statistic_id, types,
                                    (CHOOSE m \in meta :
                                        m.statistic_id = statistic_id
                                    ).unit_of_measurement,
                                    "None")]
    /\ UNCHANGED <<meta, short, long, runs, queue, nops, job>>

NextQuery == QueryImport \/ QueryAdjust \/ QueryCompile \/ Query

SpecQuery == Init /\ [][NextQuery]_vars

----------------------------------------------------------------------------
(* The import API: validation on the event loop, then a queued task *)

\* a datetime as submitted: tz-aware or naive, its wall-clock fields (as
\* seconds from H plus a microsecond field) and its UTC offset in seconds
Datetime(aware, local, microsecond, utcoffset) ==
    [none |-> FALSE, aware |-> aware, local |-> local,
     microsecond |-> microsecond, utcoffset |-> utcoffset]

\* None where a datetime may be given (last_reset)
NoneDatetime ==
    [none |-> TRUE, aware |-> FALSE, local |-> 0,
     microsecond |-> 0, utcoffset |-> 0]

\* dt_util.as_utc
as_utc(dt) == dt.local - dt.utcoffset

IsNaive(dt) == ~dt.aware

\* mutant: last_reset is not checked
validate_row_start_only(statistic) ==
    IF IsNaive(statistic.start) THEN "Naive timestamp"
    ELSE IF \/ Minute(statistic.start.local) # 0
            \/ Second(statistic.start.local) # 0
            \/ statistic.start.microsecond # 0
         THEN "Invalid timestamp"
    ELSE "ok"

\* the checks of one row in _async_import_statistics: "ok" or the error
ValidateRow(statistic) ==
    IF IsNaive(statistic.start) THEN "Naive timestamp"
    ELSE IF \/ Minute(statistic.start.local) # 0
            \/ Second(statistic.start.local) # 0
            \/ statistic.start.microsecond # 0
         THEN "Invalid timestamp"
    ELSE IF /\ "last_reset" \in DOMAIN statistic
            /\ ~statistic.last_reset.none
            /\ IsNaive(statistic.last_reset)
         THEN "Naive timestamp"
    ELSE "ok"

\* the row as the task receives it: start and last_reset converted to UTC
NormalizeRow(statistic) ==
    [k \in DOMAIN statistic |->
        IF k = "start" THEN as_utc(statistic.start)
        ELSE IF k = "last_reset"
             THEN IF statistic.last_reset.none THEN Null
                  ELSE R(as_utc(statistic.last_reset))
        ELSE statistic[k]]

\* _async_import_statistics: the first failing row raises
_async_import_statistics(metadata, statistics) ==
    LET bad == {i \in DOMAIN statistics : ValidateRow(statistics[i]) # "ok"}
    IN  IF bad # {}
        THEN [raised |-> TRUE,
              error |-> ValidateRow(
                  statistics[CHOOSE i \in bad : \A j \in bad : i <= j])]
        ELSE [raised |-> FALSE,
              task |-> [type |-> "ImportStatisticsTask",
                        metadata |-> metadata,
                        statistics |->
                            [i \in DOMAIN statistics |->
                                NormalizeRow(statistics[i])],
                        table |-> "long"]]

async_import_statistics(metadata, statistics) ==
    IF ~valid_entity_id(metadata.statistic_id)
    THEN [raised |-> TRUE, error |-> "Invalid statistic_id"]
    ELSE IF metadata.source = "" \/ metadata.source # DOMAIN_RECORDER
    THEN [raised |-> TRUE, error |-> "Invalid source"]
    ELSE _async_import_statistics(metadata, statistics)

async_add_external_statistics(metadata, statistics) ==
    IF ~valid_statistic_id(metadata.statistic_id)
    THEN [raised |-> TRUE, error |-> "Invalid statistic_id"]
    ELSE IF \/ metadata.source = ""
            \/ Chars[metadata.source] #
                   split_statistic_id_domain(metadata.statistic_id)
    THEN [raised |-> TRUE, error |-> "Invalid source"]
    ELSE _async_import_statistics(metadata, statistics)

\* what callers submit
SubmittedMetadata ==
    {[statistic_id |-> p[1], source |-> p[2], unit_of_measurement |-> "kWh",
      has_mean |-> FALSE, has_sum |-> TRUE] :
        p \in {<<"sensor.energy", "recorder">>, <<"sensor.energy", "sensor">>,
               <<"sensor.energy", "">>, <<"grid:energy", "grid">>,
               <<"grid:energy", "recorder">>, <<"grid:energy", "">>,
               <<"grid:_energy", "grid">>, <<"grid__x:energy", "grid__x">>,
               <<"recorder:energy", "recorder">>}}
    \cup {[statistic_id |-> "grid:energy", source |-> "grid",
            unit_of_measurement |-> "kWh",
            has_mean |-> TRUE, has_sum |-> FALSE]}

SubmittedRows ==
    { [start |-> Datetime(TRUE, 0, 0, 0), sum |-> R(100)],
      [start |-> Datetime(TRUE, 3600, 0, 0), sum |-> R(150),
       last_reset |-> Datetime(TRUE, 0, 0, 0)],
      [start |-> Datetime(TRUE, 7200, 0, 3600), sum |-> R(150),
       last_reset |-> NoneDatetime],
      [start |-> Datetime(TRUE, 3600, 0, 1800), sum |-> R(150)],
      [start |-> Datetime(FALSE, 0, 0, 0), sum |-> R(100)],
      [start |-> Datetime(TRUE, 0, 0, 0), sum |-> R(100),
       last_reset |-> Datetime(FALSE, 0, 0, 0)],
      [start |-> Datetime(TRUE, 1800, 0, 0), sum |-> R(100)],
      [start |-> Datetime(TRUE, 15, 0, 0), sum |-> R(100)],
      [start |-> Datetime(TRUE, 0, 1, 0), sum |-> R(100)] }

SubmittedBatches ==
    UNION {[1..n -> SubmittedRows] : n \in 0..MaxBatch}

\* one submission to a recorder that has not run anything yet
ApiCall(op, res, metadata, statistics) ==
    /\ last.op = "init"
    /\ queue' = IF res.raised THEN queue ELSE Append(queue, res.task)
    /\ last' = [op |-> op, metadata |-> metadata,
                statistics |-> statistics,
                raised |-> res.raised,
                error |-> IF res.raised THEN res.error ELSE "none"]
    /\ nops' = nops + 1
    /\ UNCHANGED <<tables, job>>

AsyncImportStatistics ==
    \E metadata \in SubmittedMetadata :
      \E statistics \in SubmittedBatches :
        ApiCall("async_import_statistics",
                async_import_statistics(metadata, statistics),
                metadata, statistics)

AsyncAddExternalStatistics ==
    \E metadata \in SubmittedMetadata :
      \E statistics \in SubmittedBatches :
        ApiCall("async_add_external_statistics",
                async_add_external_statistics(metadata, statistics),
                metadata, statistics)

\* the recorder thread takes the next task off the queue and runs it
RunImportTask ==
    /\ queue # <<>>
    /\ Head(queue).type = "ImportStatisticsTask"
    /\ ImportStatisticsTask_run(Head(queue).metadata,
                                Head(queue).statistics, Head(queue).table)
    /\ queue' = Tail(queue)
    /\ UNCHANGED <<nops, job>>

NextImportApi ==
    \/ AsyncImportStatistics
    \/ AsyncAddExternalStatistics
    \/ RunImportTask

SpecImportApi == Init /\ [][NextImportApi]_vars

----------------------------------------------------------------------------
(* Properties *)

\* a step of the recorder thread that ran the operation op
Ran(op) == nops' = nops + 1 /\ last'.op = op

\* C1: running 5-minute compaction again for a start whose RunMarker exists
\* inserts no short-term row, no long-term row and no second RunMarker,
\* changes no descriptor and returns an empty modified set, whatever the
\* platforms return on the second call.
C1_IdempotentCompaction ==
    [][(Ran("compile_statistics") /\ RunMarkerExists(Db, last'.start))
         => /\ short' = short
            /\ long' = long
            /\ runs' = runs
            /\ meta' = meta
            /\ last'.skipped
            /\ last'.modified = {}]_vars

\* a compaction was skipped by its RunMarker although the platforms reported
\* rows for the period
C1_Witness ==
    /\ last.op = "compile_statistics"
    /\ last.skipped
    /\ last.nstats > 0
    /\ short # {}

\* C3: no two committed rows of the same statistics table share
\* (metadata_id, start_ts), after any sequence of compaction, hourly rollup,
\* import and adjust operations.
C3_Uniqueness == UniqueIndexOk(short) /\ UniqueIndexOk(long)

\* a compaction whose inserts collided with existing rows was rolled back
C3_Witness ==
    /\ last.op = "compile_statistics"
    /\ ~last.skipped
    /\ ~last.committed
    /\ long # {}

\* the rows of a batch that decide the stored values of a start: the last
\* row of the batch with that start
LastOfBatch(statistics, start) ==
    statistics[CHOOSE i \in DOMAIN statistics :
                  /\ statistics[i].start = start
                  /\ \A j \in DOMAIN statistics :
                        statistics[j].start = start => j <= i]

BatchStarts(statistics) == {statistics[i].start : i \in DOMAIN statistics}

ImportedMetadataId(metaTable, metadata) ==
    (CHOOSE m \in metaTable : m.statistic_id = metadata.statistic_id).id

\* C4: for each imported row, an existing row of (metadata_id, start_ts)
\* (also one added earlier in the same batch) has its mean, min, max,
\* last_reset, state and sum replaced by the imported values, an absent field
\* becoming null, and no row is added; otherwise exactly one row is inserted.
\* Importing the same batch twice leaves the table as after the first import.
C4_ImportUpsert ==
    [][Ran("import_statistics") =>
        LET b == last'.statistics
            mid == ImportedMetadataId(meta', last'.metadata)
            hit(t, s) == {r \in t : r.metadata_id = mid /\ r.start_ts = s}
        IN  /\ \A s \in BatchStarts(b) :
                 /\ Cardinality(hit(long', s)) = 1
                 /\ \A r \in hit(long', s) :
                       /\ r.mean = Get(LastOfBatch(b, s), "mean")
                       /\ r.min = Get(LastOfBatch(b, s), "min")
                       /\ r.max = Get(LastOfBatch(b, s), "max")
                       /\ r.last_reset_ts = Get(LastOfBatch(b, s), "last_reset")
                       /\ r.state = Get(LastOfBatch(b, s), "state")
                       /\ r.sum = Get(LastOfBatch(b, s), "sum")
                       /\ \A o \in hit(long, s) : o.id = r.id
            /\ \A r \in long :
                 (r.metadata_id # mid \/ r.start_ts \notin BatchStarts(b))
                     => r \in long'
            /\ Cardinality(long') = Cardinality(long) +
                 Cardinality({s \in BatchStarts(b) : hit(long, s) = {}})
            /\ short' = short
            /\ _import_statistics_with_session(
                   Db', last'.metadata, b, "long") = Db']_vars

\* a batch holding the same start twice was imported: the second row
\* replaced the first and its absent state became null
C4_Witness ==
    /\ last.op = "import_statistics"
    /\ Len(last.statistics) = 2
    /\ \E r \in long : r.start_ts = 0 /\ r.sum = R(120) /\ IsNull(r.state)

PeriodsPerHour == LongTermDuration \div ShortTermDuration

RECURSIVE MeanTotal(_, _, _)
\* the means of the hour's rows added up period by period, from period k on
MeanTotal(rows, H, k) ==
    IF k = PeriodsPerHour THEN R(0)
    ELSE LET rs == {r \in rows : /\ r.start_ts = H + k * ShortTermDuration
                                 /\ ~IsNull(r.mean)}
         IN  IF rs = {} THEN MeanTotal(rows, H, k + 1)
             ELSE RAdd((CHOOSE r \in rs : TRUE).mean, MeanTotal(rows, H, k + 1))

NonNull(rows, col) == {r[col] : r \in {x \in rows : ~IsNull(x[col])}}

\* C2: after the rollup of hour H, the long-term row of each metadata_id has
\* mean = the arithmetic mean of the non-null means of its short-term rows
\* in [H, H+1h), min = the minimum of their mins, max = the maximum of their
\* maxes, and sum, state and last_reset of the row with the greatest start_ts.
C2_RollupConsistency ==
    (last.op = "compile_statistics" /\ last.hourly /\ last.committed) =>
        LET H == ReplaceMinSec0(last.start)
            inHour == {r \in short : /\ r.start_ts >= H
                                     /\ r.start_ts < H + LongTermDuration}
        IN  \A mid \in {r.metadata_id : r \in inHour} :
              LET rows == {r \in inHour : r.metadata_id = mid}
                  ls == {l \in long : l.metadata_id = mid /\ l.start_ts = H}
                  n == Cardinality({r \in rows : ~IsNull(r.mean)})
              IN  /\ Cardinality(ls) = 1
                  /\ \A l \in ls :
                       /\ IF n = 0 THEN IsNull(l.mean)
                          ELSE /\ ~IsNull(l.mean)
                               /\ RMulInt(l.mean, n) = MeanTotal(rows, H, 0)
                       /\ IF NonNull(rows, "min") = {} THEN IsNull(l.min)
                          ELSE /\ l.min \in NonNull(rows, "min")
                               /\ \A v \in NonNull(rows, "min") : RLeq(l.min, v)
                       /\ IF NonNull(rows, "max") = {} THEN IsNull(l.max)
                          ELSE /\ l.max \in NonNull(rows, "max")
                               /\ \A v \in NonNull(rows, "max") : RLeq(v, l.max)
                       /\ \E newest \in rows :
                            /\ \A q \in rows : q.start_ts <= newest.start_ts
                            /\ l.sum = newest.sum
                            /\ l.state = newest.state
                            /\ l.last_reset_ts = newest.last_reset_ts

\* twelve short-term rows with means 10, 20, ..., 10, 20 were rolled up into
\* a long-term row with mean 15, min 10 and max 20
C2_Witness ==
    /\ last.op = "compile_statistics" /\ last.hourly /\ last.committed
    /\ \E l \in long :
         /\ l.start_ts = 0
         /\ l.mean = R(15) /\ l.min = R(10) /\ l.max = R(20)
         /\ Cardinality({r \in short : /\ r.metadata_id = l.metadata_id
                                       /\ r.start_ts < LongTermDuration
                                       /\ ~IsNull(r.mean)}) = PeriodsPerHour

\* a submitted row the import API must refuse
RowRefused(statistic) ==
    \/ ~statistic.start.aware
    \/ /\ "last_reset" \in DOMAIN statistic
       /\ ~statistic.last_reset.none
       /\ ~statistic.last_reset.aware
    \/ statistic.start.local % LongTermDuration # 0
    \/ statistic.start.microsecond # 0

\* C5: async_import_statistics and async_add_external_statistics raise and
\* queue no import task when the statistic_id is invalid, when the source is
\* empty or differs from the required domain, or when any row of the batch has
\* a naive start, a naive non-null last_reset, or a start with non-zero
\* minute, second or microsecond; a task is queued only when every row passes.
C5_ImportValidation ==
    [][(Ran("async_import_statistics") \/ Ran("async_add_external_statistics"))
        => LET md == last'.metadata
               b == last'.statistics
               internal == last'.op = "async_import_statistics"
               idInvalid == IF internal THEN ~valid_entity_id(md.statistic_id)
                            ELSE ~valid_statistic_id(md.statistic_id)
               sourceBad ==
                   \/ md.source = ""
                   \/ IF internal THEN md.source # "recorder"
                      ELSE Chars[md.source] #
                               split_statistic_id_domain(md.statistic_id)
               refuse == \/ idInvalid
                         \/ sourceBad
                         \/ \E i \in DOMAIN b : RowRefused(b[i])
           IN  /\ refuse => /\ last'.raised
                            /\ queue' = queue
               /\ ~refuse => /\ ~last'.raised
                             /\ Len(queue') = Len(queue) + 1
                             /\ queue'[Len(queue')].type = "ImportStatisticsTask"
                             /\ queue'[Len(queue')].metadata = md
                             /\ Len(queue'[Len(queue')].statistics) = Len(b)
               /\ UNCHANGED tables]_vars

\* a batch whose first row is valid and whose second row has a naive
\* last_reset was refused, and nothing was queued
C5_Witness ==
    /\ last.op = "async_add_external_statistics"
    /\ last.raised
    /\ last.error = "Naive timestamp"
    /\ Len(last.statistics) = 2
    /\ ~RowRefused(last.statistics[1])
    /\ last.statistics[2].start.aware
    /\ queue = <<>>


----------------------------------------------------------------------------
(* SpecRepair: duplicate repair of a database written under a legacy
   schema, whose statistics tables had no unique index *)

MaxLegacyRows == 5

\* SQLITE_MAX_BIND_VARS, the ids deleted by one statement, and the factor
\* of the row limit of _find_duplicates (1000 in the code), scaled down
SQLITE_MAX_BIND_VARS == 2
FindLimitChunks == 1

\* mutant: ORDER BY metadata_id, start, id
ordered_before_id_ascending(r, q) ==
    \/ r.metadata_id < q.metadata_id
    \/ r.metadata_id = q.metadata_id /\ r.start_ts < q.start_ts
    \/ r.metadata_id = q.metadata_id /\ r.start_ts = q.start_ts /\ r.id <= q.id

\* ORDER BY metadata_id, start, id DESC
OrderedBefore(r, q) ==
    \/ r.metadata_id < q.metadata_id
    \/ r.metadata_id = q.metadata_id /\ r.start_ts < q.start_ts
    \/ r.metadata_id = q.metadata_id /\ r.start_ts = q.start_ts /\ r.id >= q.id

RECURSIVE OrderRows(_)
OrderRows(rows) ==
    IF rows = {} THEN <<>>
    ELSE LET r == CHOOSE x \in rows : \A q \in rows : OrderedBefore(x, q)
         IN  <<r>> \o OrderRows(rows \ {r})

\* the rows whose (metadata_id, start) is shared by several rows, ordered
\* and cut at the limit
DuplicatesQuery(table) ==
    LET dup == {r \in table : \E q \in table :
                   /\ q.id # r.id
                   /\ q.metadata_id = r.metadata_id
                   /\ q.start_ts = r.start_ts}
        ordered == OrderRows(dup)
        limit == FindLimitChunks * SQLITE_MAX_BIND_VARS
    IN  SubSeq(ordered, 1, IF Len(ordered) < limit THEN Len(ordered) ELSE limit)

\* compare_statistic_rows: equal but for id and created
compare_statistic_rows(row1, row2) ==
    /\ row1.metadata_id = row2.metadata_id
    /\ row1.start_ts = row2.start_ts
    /\ row1.mean = row2.mean
    /\ row1.min = row2.min
    /\ row1.max = row2.max
    /\ row1.last_reset_ts = row2.last_reset_ts
    /\ row1.state = row2.state
    /\ row1.sum = row2.sum

\* the numbers of S in ascending order
RECURSIVE Ascending(_)
Ascending(S) ==
    IF S = {} THEN <<>>
    ELSE LET x == CHOOSE y \in S : \A z \in S : y <= z
         IN  <<x>> \o Ascending(S \ {x})

\* _find_duplicates: (duplicate_ids, non_identical_duplicates_as_dict)
_find_duplicates(table) ==
    LET duplicates == DuplicatesQuery(table)
        IsOriginal(i) ==
            \/ i = 1
            \/ duplicates[i].start_ts # duplicates[i - 1].start_ts
            \/ duplicates[i].metadata_id # duplicates[i - 1].metadata_id
        Original(i) ==
            duplicates[CHOOSE j \in 1..i :
                          /\ IsOriginal(j)
                          /\ \A k \in (j + 1)..i : ~IsOriginal(k)]
        IsNonIdentical(i) ==
            /\ ~IsOriginal(i)
            /\ ~compare_statistic_rows(Original(i), duplicates[i])
        ids == Ascending({i \in 1..Len(duplicates) : ~IsOriginal(i)})
        non_identical ==
            Ascending({i \in 1..Len(duplicates) : IsNonIdentical(i)})
    IN  [duplicate_ids |-> [i \in 1..Len(ids) |-> duplicates[ids[i]].id],
         non_identical_duplicates |->
             [i \in 1..Len(non_identical) |->
                 [duplicate |-> duplicates[non_identical[i]].id,
                  original |-> Original(non_identical[i]).id]]]


\* what the writers of the legacy schema stored: energy rows of one
\* statistic, some for a period that already had a row
LegacyStats(table) ==
    { [start |-> 0, state |-> R(1), sum |-> R(1)],
      [start |-> 0, state |-> R(2), sum |-> R(2)],
      [start |-> Duration(table), state |-> R(3), sum |-> R(3)] }

\* a write under the legacy schema: no unique index refuses the row
LegacyInsert ==
    /\ job.pc = "idle"
    /\ last.op \in {"init", "legacy_insert"}
    /\ nops < MaxLegacyRows
    /\ \E table \in {"short", "long"} :
       \E statistic \in LegacyStats(table) :
         LET u == update_or_add(meta, EnergyMeta("kWh"),
                                get_many(meta, {"sensor.energy"}))
             db == [Db EXCEPT
                       !.meta = u.meta,
                       ![table] = _insert_statistics(Db[table], u.metadata_id,
                                                     statistic)]
         IN  /\ meta' = db.meta
             /\ short' = db.short
             /\ long' = db.long
             /\ last' = [op |-> "legacy_insert"]
    /\ nops' = nops + 1
    /\ UNCHANGED <<runs, queue, job>>

\* delete_statistics_duplicates is entered: _delete_duplicates_from_table
\* (session, Statistics) starts
StartRepair ==
    /\ job.pc = "idle"
    /\ last.op \in {"init", "legacy_insert"}
    /\ job' = [pc |-> "find", table |-> "long", duplicate_ids |-> <<>>,
               i |-> 0, all_non_identical_duplicates |-> <<>>,
               total_deleted_rows |-> 0, backup |-> FALSE]
    /\ last' = [op |-> "delete_statistics_duplicates", before |-> Db]
    /\ UNCHANGED <<tables, queue, nops>>

\* one round of the while loop of _delete_duplicates_from_table up to the
\* first delete; at the break the caller goes on
FindDuplicates ==
    /\ job.pc = "find"
    /\ LET found == _find_duplicates(Db[job.table])
       IN  job' = IF found.duplicate_ids = <<>>
                  THEN [job EXCEPT
                           !.pc = IF job.table = "long" THEN "backup"
                                  ELSE "done"]
                  ELSE [job EXCEPT
                           !.pc = "delete",
                           !.duplicate_ids = found.duplicate_ids,
                           !.i = 0,
                           !.all_non_identical_duplicates =
                               @ \o found.non_identical_duplicates]
    /\ UNCHANGED <<tables, queue, nops, last>>

\* DELETE ... WHERE id IN (duplicate_ids[i : i + SQLITE_MAX_BIND_VARS])
DeleteChunk ==
    /\ job.pc = "delete"
    /\ LET to == IF job.i + SQLITE_MAX_BIND_VARS < Len(job.duplicate_ids)
                 THEN job.i + SQLITE_MAX_BIND_VARS
                 ELSE Len(job.duplicate_ids)
           ids == {job.duplicate_ids[k] : k \in (job.i + 1)..to}
           kept == {r \in Db[job.table] : r.id \notin ids}
       IN  /\ short' = IF job.table = "short" THEN kept ELSE short
           /\ long' = IF job.table = "long" THEN kept ELSE long
           /\ job' = [job EXCEPT
                         !.pc = IF to = Len(job.duplicate_ids)
                                THEN "find" ELSE "delete",
                         !.i = to,
                         !.total_deleted_rows =
                             @ + Cardinality(Db[job.table] \ kept)]
    /\ UNCHANGED <<meta, runs, queue, nops, last>>

\* the backup file is written when the long-term table had non-identical
\* duplicates; then _delete_duplicates_from_table(session,
\* StatisticsShortTerm) starts, whose non-identical duplicates are dropped
WriteBackup ==
    /\ job.pc = "backup"
    /\ job' = [job EXCEPT
                  !.pc = "find",
                  !.table = "short",
                  !.backup = (job.all_non_identical_duplicates # <<>>),
                  !.all_non_identical_duplicates = <<>>,
                  !.duplicate_ids = <<>>,
                  !.i = 0]
    /\ UNCHANGED <<tables, queue, nops, last>>

NextRepair ==
    \/ LegacyInsert
    \/ StartRepair
    \/ FindDuplicates
    \/ DeleteChunk
    \/ WriteBackup

SpecRepair == Init /\ [][NextRepair]_vars

----------------------------------------------------------------------------
(* SpecWorker: the recorder thread takes the tasks off the FIFO queue one
   after the other; a task whose job did not finish queues its successor *)

\* the configured number of retries of a job that fails with a retryable
\* database error
MaxRetries == 1
\* the 5-minute timer fires this many times
MaxTicks == 2
\* tasks queued besides those of the timer
MaxSubmits == 1
\* tasks the recorder thread runs
MaxRuns == 3

\* the period whose end the timer sees first
TimerStart == 2 * LongTermDuration + ShortTermDuration

\* instance.keep_days, as seconds (the model keeps five minutes)
KeepSeconds == ShortTermDuration

\* commit_interval = 60 / period_size * 12
commit_interval == (60 \div 5) * 12

StatisticsTask(start, fire_events) ==
    [type |-> "StatisticsTask", start |-> start, fire_events |-> fire_events]

CompileMissingStatisticsTask == [type |-> "CompileMissingStatisticsTask"]

ImportStatisticsTask(metadata, statistics, table) ==
    [type |-> "ImportStatisticsTask", metadata |-> metadata,
     statistics |-> statistics, table |-> table]

AdjustStatisticsTask(statistic_id, start_time, sum_adjustment, adjustment_unit) ==
    [type |-> "AdjustStatisticsTask", statistic_id |-> statistic_id,
     start_time |-> start_time, sum_adjustment |-> sum_adjustment,
     adjustment_unit |-> adjustment_unit]

PurgeTask(purge_before, repack, apply_filter) ==
    [type |-> "PurgeTask", purge_before |-> purge_before,
     repack |-> repack, apply_filter |-> apply_filter]

PurgeEntitiesTask(entity_filter, purge_before) ==
    [type |-> "PurgeEntitiesTask", entity_filter |-> entity_filter,
     purge_before |-> purge_before]

\* the migration tasks that queue themselves again and nothing else
MigrationTaskTypes ==
    {"StatisticsTimestampMigrationCleanupTask", "StatesContextIDMigrationTask",
     "EventsContextIDMigrationTask", "EventTypeIDMigrationTask",
     "EntityIDPostMigrationTask"}

MigrationTask(type) == [type |-> type]

EntityIDMigrationTask == [type |-> "EntityIDMigrationTask"]

EntityIDPostMigrationTask == MigrationTask("EntityIDPostMigrationTask")

TimerTasks ==
    {StatisticsTask(TimerStart + i * ShortTermDuration, TRUE) : i \in 0..MaxTicks}

WorkerImportTask ==
    ImportStatisticsTask(GridMeta, << [start |-> 0, sum |-> R(100)] >>, "long")

WorkerAdjustTask == AdjustStatisticsTask("sensor.energy", 7500, R(5), "kWh")

\* the tasks whose job is wrapped by retryable_database_job
RetryableTasks ==
    TimerTasks \cup {CompileMissingStatisticsTask, WorkerImportTask,
                     WorkerAdjustTask}

SubmittedTasks ==
    {CompileMissingStatisticsTask, WorkerImportTask, WorkerAdjustTask,
     PurgeTask(0, FALSE, TRUE), PurgeEntitiesTask("sensor.energy", 0),
     EntityIDMigrationTask}
    \cup {MigrationTask(type) : type \in MigrationTaskTypes}

\* what the sensor platform reports for a period: sensor.energy has
\* recorded states from H+50min on
WorkerPlatform(start) ==
    IF start >= 3000
    THEN << [meta |-> EnergyMeta("kWh"), stat |-> EnergyStat(start)] >>
    ELSE <<>>

\* one turn of the while loop of compile_missing_statistics, res being
\* what _compile_statistics did in the session. acc.db is what the session
\* sees, acc.committed what the last commit left, acc.raised whether an
\* IntegrityError left the loop; acc.compiled and acc.commits list the
\* starts of the periods compiled and of those followed by a commit,
\* acc.changed those of the periods that changed a descriptor
\* (first the mutant in which the commit in the loop leaves out the
\* RunMarker of the period)
compile_missing_turn_commits_without_marker(acc, res, start, p) ==
    LET commit == p = commit_interval \/ res.modified # {}
        fails == res.raised \/ (commit /\ ~IntegrityOk(res.db))
    IN  [db |-> IF fails THEN acc.committed ELSE res.db,
         committed |-> IF commit /\ ~fails
                       THEN [res.db EXCEPT !.runs = acc.db.runs]
                       ELSE acc.committed,
         raised |-> fails,
         periods_without_commit |-> IF commit THEN 0 ELSE p,
         compiled |-> Append(acc.compiled, start),
         changed |-> IF res.modified # {} THEN Append(acc.changed, start)
                     ELSE acc.changed,
         commits |-> IF commit /\ ~fails THEN Append(acc.commits, start)
                     ELSE acc.commits,
         fired |-> IF res.events # {} THEN Append(acc.fired, start)
                   ELSE acc.fired]
CompileMissingTurn(acc, res, start, p) ==
    LET commit == p = commit_interval \/ res.modified # {}
        fails == res.raised \/ (commit /\ ~IntegrityOk(res.db))
    IN  [db |-> IF fails THEN acc.committed ELSE res.db,
         committed |-> IF commit /\ ~fails THEN res.db ELSE acc.committed,
         raised |-> fails,
         periods_without_commit |-> IF commit THEN 0 ELSE p,
         compiled |-> Append(acc.compiled, start),
         changed |-> IF res.modified # {} THEN Append(acc.changed, start)
                     ELSE acc.changed,
         commits |-> IF commit /\ ~fails THEN Append(acc.commits, start)
                     ELSE acc.commits,
         fired |-> IF res.events # {} THEN Append(acc.fired, start)
                   ELSE acc.fired]

\* the body of the while loop of compile_missing_statistics; the RunMarker
\* query that opens _compile_statistics flushes what the turn before left
\* pending
CompileMissingStep(acc, start, last_period) ==
    IF ~IntegrityOk(acc.db)
    THEN [acc EXCEPT !.db = acc.committed, !.raised = TRUE]
    ELSE CHOOSE turn \in
           { CompileMissingTurn(acc, res, start,
                                acc.periods_without_commit + 1) :
             res \in { _compile_statistics(
                           acc.db, start,
                           start + ShortTermDuration >= last_period,
                           WorkerPlatform(start)) } } : TRUE

\* the while loop of compile_missing_statistics
RECURSIVE CompileMissingLoop(_, _, _)
CompileMissingLoop(acc, start, last_period) ==
    IF start >= last_period \/ acc.raised THEN acc
    ELSE CHOOSE out \in
           { CompileMissingLoop(turn, start + ShortTermDuration, last_period) :
             turn \in {CompileMissingStep(acc, start, last_period)} } : TRUE

\* func.max(StatisticsRuns.start), NoTime when the table is empty
LastRun(db) ==
    IF db.runs = {} THEN NoTime
    ELSE CHOOSE s \in {r.start : r \in db.runs} :
             \A r \in db.runs : r.start <= s

\* compile_missing_statistics up to its while loop: the first period, the
\* period the loop stops before, and the state of the session
\* (first with the newest RunMarker left out of account, then as coded)
compile_missing_start_ignores_last_run(db, now, keep) ==
    [start |-> ReplaceMinSec0(now - keep),
     last_period |-> Floor5Min(now),
     acc |-> [db |-> db, committed |-> db, raised |-> FALSE,
              periods_without_commit |-> 0,
              compiled |-> <<>>, changed |-> <<>>, commits |-> <<>>,
              fired |-> <<>>]]
CompileMissingStart(db, now, keep) ==
    LET start0 == ReplaceMinSec0(now - keep)
        last_run == LastRun(db)
    IN  [start |-> IF last_run # NoTime
                      /\ last_run + ShortTermDuration > start0
                   THEN last_run + ShortTermDuration ELSE start0,
         last_period |-> Floor5Min(now),
         acc |-> [db |-> db, committed |-> db, raised |-> FALSE,
                  periods_without_commit |-> 0,
                  compiled |-> <<>>, changed |-> <<>>, commits |-> <<>>,
                  fired |-> <<>>]]

\* leaving session_scope after the loop: commit, or roll back what is
\* pending when the loop or the commit raised
CompileMissingEnd(acc) ==
    [db |-> IF ~acc.raised /\ IntegrityOk(acc.db) THEN acc.db
            ELSE acc.committed,
     compiled |-> acc.compiled,
     changed |-> acc.changed,
     commits |-> acc.commits,
     fired |-> acc.fired,
     raised |-> acc.raised \/ ~IntegrityOk(acc.db)]

\* compile_missing_statistics(instance), called at the time now, with
\* instance.keep_days given in seconds
compile_missing_statistics(db, now, keep) ==
    CHOOSE out \in
      { [db |-> end.db, start |-> begin.start,
         last_period |-> begin.last_period,
         compiled |-> end.compiled, changed |-> end.changed,
         commits |-> end.commits, raised |-> end.raised] :
        end \in { CompileMissingEnd(
                      CompileMissingLoop(begin.acc, begin.start,
                                         begin.last_period)) :
                  begin \in {CompileMissingStart(db, now, keep)} },
        begin \in {CompileMissingStart(db, now, keep)} } : TRUE

\* retryable_database_job: the job's result when the database raised a
\* retryable OperationalError. The job reports not finished until the
\* configured number of retries is used up, then the task is dropped
retryable_database_job(attempts) ==
    IF attempts < MaxRetries
    THEN [returned |-> "False", attempts |-> attempts + 1, dropped |-> FALSE]
    ELSE [returned |-> "True", attempts |-> 0, dropped |-> TRUE]

\* mutant: the successor is queued whatever the job returned
queue_successor_always(q, successor, returned) == Append(Tail(q), successor)

\* mutant: the successor is put at the head of the queue
queue_successor_at_head(q, successor, returned) ==
    IF returned \in {"False", "None"} THEN <<successor>> \o Tail(q) ELSE Tail(q)

\* RecorderTask.run of a self-rescheduling task, seen from the queue: the
\* task is taken off, and "if job(...): return" else
\* instance.queue_task(successor). A job that raises queues nothing
QueueSuccessor(q, successor, returned) ==
    IF returned \in {"False", "None"} THEN Append(Tail(q), successor) ELSE Tail(q)

\* the job raised a retryable OperationalError: its transaction is rolled back
JobFailed(task, op) ==
    LET w == retryable_database_job(job.attempts[task])
    IN  /\ UNCHANGED tables
        /\ last' = [op |-> op, task |-> task, committed |-> FALSE,
                    returned |-> w.returned, dropped |-> w.dropped,
                    failed |-> TRUE]
        /\ job' = [job EXCEPT !.attempts[task] = w.attempts]
        /\ queue' = QueueSuccessor(queue, task, w.returned)

\* the job ran to its end
JobRan(task) ==
    /\ job' = [job EXCEPT !.attempts[task] = 0]
    /\ queue' = QueueSuccessor(queue, task, last'.returned)

WorkerTakes(type) ==
    /\ job.pc = "worker"
    /\ nops < MaxRuns
    /\ queue # <<>>
    /\ Head(queue).type = type
    /\ nops' = nops + 1

RunStatisticsTask ==
    /\ WorkerTakes("StatisticsTask")
    /\ LET task == Head(queue)
       IN  \/ /\ StatisticsTask_run(task.start, task.fire_events,
                                    WorkerPlatform(task.start))
              /\ JobRan(task)
           \/ JobFailed(task, "compile_statistics")

RunCompileMissingStatisticsTask ==
    /\ WorkerTakes("CompileMissingStatisticsTask")
    /\ LET task == Head(queue)
       IN  \/ \E res \in {compile_missing_statistics(Db, job.now, KeepSeconds)} :
                /\ meta' = res.db.meta
                /\ short' = res.db.short
                /\ long' = res.db.long
                /\ runs' = res.db.runs
                /\ last' = [op |-> "compile_missing_statistics",
                            start |-> res.start,
                            last_period |-> res.last_period,
                            returned |-> "True"]
                /\ JobRan(task)
           \/ JobFailed(task, "compile_missing_statistics")

RunImportStatisticsTask ==
    /\ WorkerTakes("ImportStatisticsTask")
    /\ LET task == Head(queue)
       IN  \/ /\ ImportStatisticsTask_run(task.metadata, task.statistics,
                                          task.table)
              /\ JobRan(task)
           \/ JobFailed(task, "import_statistics")

RunAdjustStatisticsTask ==
    /\ WorkerTakes("AdjustStatisticsTask")
    /\ LET task == Head(queue)
       IN  \/ /\ AdjustStatisticsTask_run(task.statistic_id, task.start_time,
                                          task.sum_adjustment,
                                          task.adjustment_unit)
              /\ JobRan(task)
           \/ JobFailed(task, "adjust_statistics")

\* PurgeTask.run and PurgeEntitiesTask.run: purge works on the states and
\* events tables in chunks and tells whether it is done
RunPurgeTask ==
    /\ WorkerTakes("PurgeTask")
    /\ \E finished \in {"True", "False"} :
         /\ last' = [op |-> "purge_old_data", returned |-> finished]
         /\ queue' = QueueSuccessor(queue,
                PurgeTask(Head(queue).purge_before, Head(queue).repack,
                          Head(queue).apply_filter), finished)
    /\ UNCHANGED <<tables, job>>

RunPurgeEntitiesTask ==
    /\ WorkerTakes("PurgeEntitiesTask")
    /\ \E finished \in {"True", "False"} :
         /\ last' = [op |-> "purge_entity_data", returned |-> finished]
         /\ queue' = QueueSuccessor(queue,
                PurgeEntitiesTask(Head(queue).entity_filter,
                                  Head(queue).purge_before), finished)
    /\ UNCHANGED <<tables, job>>

\* the migration tasks of the shape "if not job(): queue_task(Same())"
RunMigrationTask ==
    /\ \E type \in MigrationTaskTypes :
         /\ WorkerTakes(type)
         /\ \E finished \in {"True", "False"} :
              /\ last' = [op |-> type, returned |-> finished]
              /\ queue' = QueueSuccessor(queue, MigrationTask(type), finished)
    /\ UNCHANGED <<tables, job>>

\* EntityIDMigrationTask.run: once the migration is finished the post
\* migration is started
RunEntityIDMigrationTask ==
    /\ WorkerTakes("EntityIDMigrationTask")
    /\ \E finished \in {"True", "False"} :
         /\ last' = [op |-> "EntityIDMigrationTask", returned |-> finished]
         /\ queue' = IF finished = "False"
                     THEN Append(Tail(queue), EntityIDMigrationTask)
                     ELSE Append(Tail(queue), EntityIDPostMigrationTask)
    /\ UNCHANGED <<tables, job>>

\* every five minutes the period that just ended is queued for compaction
Timer ==
    /\ job.pc = "worker"
    /\ job.now < TimerStart + MaxTicks * ShortTermDuration
    /\ queue' = Append(queue, StatisticsTask(job.now, TRUE))
    /\ job' = [job EXCEPT !.now = @ + ShortTermDuration]
    /\ UNCHANGED <<tables, nops, last>>

\* instance.queue_task(task) from a service call or from the start-up code
SubmitTask ==
    /\ job.pc = "worker"
    /\ job.submitted < MaxSubmits
    /\ \E task \in SubmittedTasks : queue' = Append(queue, task)
    /\ job' = [job EXCEPT !.submitted = @ + 1]
    /\ UNCHANGED <<tables, nops, last>>

InitWorker ==
    /\ meta = {}
    /\ short = {}
    /\ long = {}
    /\ runs = {}
    /\ queue = <<>>
    /\ nops = 0
    /\ last = [op |-> "init"]
    /\ job = [pc |-> "worker", now |-> TimerStart, submitted |-> 0,
              attempts |-> [t \in RetryableTasks |-> 0]]

NextWorker ==
    \/ Timer
    \/ SubmitTask
    \/ RunStatisticsTask
    \/ RunCompileMissingStatisticsTask
    \/ RunImportStatisticsTask
    \/ RunAdjustStatisticsTask
    \/ RunPurgeTask
    \/ RunPurgeEntitiesTask
    \/ RunMigrationTask
    \/ RunEntityIDMigrationTask

SpecWorker == InitWorker /\ [][NextWorker]_vars

----------------------------------------------------------------------------
(* Queries over a period *)

Queried(statistic_id) ==
    /\ last.op = "statistic_during_period"
    /\ last.statistic_id = statistic_id

RowsOf(table, statistic_id) ==
    {r \in table : \E m \in meta : /\ m.statistic_id = statistic_id
                                   /\ m.id = r.metadata_id}

SumsAt(table, statistic_id) ==
    {<<r.start_ts, r.sum>> : r \in RowsOf(table, statistic_id)}

\* the query of the example: change of grid:energy over [H, H+2h+30min)
GridChangeQuery ==
    /\ Queried("grid:energy")
    /\ last.start_time = 0
    /\ last.end_time = 2 * LongTermDuration + 1800
    /\ "change" \in last.types
    /\ RowsOf(short, "grid:energy") = {}

GridRowsImported ==
    SumsAt(long, "grid:energy") =
        {<<0, R(100)>>, <<LongTermDuration, R(150)>>,
         <<2 * LongTermDuration, R(200)>>}

\* C6 as stated: for the external statistic with long-term sums 100, 150,
\* 200 at H, H+1, H+2 and no short-term rows, the change over
\* [H, H+2h+30min) is 100
C6_Change100 ==
    GridChangeQuery /\ GridRowsImported => last.result["change"] = R(100)

\* C6 amended: for the external statistic with long-term sums 100, 150, 200
\* at H, H+1, H+2 and no short-term rows, the change over [H, H+2h+30min)
\* is 150: the range begins at the oldest row, so the opening sum is 0, and
\* the newest sum comes from the main sub-range [H, H+2h), the tail
\* [H+2h, H+2h+30min) having no short-term rows
C6_Change150 ==
    GridChangeQuery /\ GridRowsImported => last.result["change"] = R(150)

C6_Witness ==
    GridChangeQuery /\ GridRowsImported /\ last.result["change"] = R(150)

\* adjust_statistics added +5 kWh to grid:energy from H+1 (the step between
\* the import and the first compiled period)
GridAdjusted ==
    /\ nops = QueryPeriods + 2
    /\ SumsAt(long, "grid:energy") =
           {<<0, R(100)>>, <<LongTermDuration, R(155)>>,
            <<2 * LongTermDuration, R(205)>>}

\* C7 as stated: after +5 from H+1 on the sums 100, 150, 200, the change
\* over [H, H+2h+30min) is 105
C7_Change105 ==
    GridChangeQuery /\ nops = QueryPeriods + 2 =>
        last.result["change"] = R(105)

\* C7 amended: after +5 from H+1 on the sums 100, 150, 200 (now 100, 155,
\* 205), the change over [H, H+2h+30min) is 155: the adjusted sum of the
\* row at H+1 minus an opening sum of 0
C7_Change155 ==
    GridChangeQuery /\ nops = QueryPeriods + 2 =>
        GridAdjusted /\ last.result["change"] = R(155)

C7_Witness ==
    GridChangeQuery /\ GridAdjusted /\ last.result["change"] = R(155)

\* the rows a statistic is made of: the 5-minute rows of a sensor, the
\* hourly rows of an external statistic
SeriesTable(statistic_id) ==
    IF valid_statistic_id(statistic_id) THEN "long" ELSE "short"

Series(statistic_id) ==
    RowsOf(Db[SeriesTable(statistic_id)], statistic_id)

StrictlyIncreasingSum(rows) ==
    /\ rows # {}
    /\ \A r \in rows : ~IsNull(r.sum)
    /\ \A r, q \in rows : r.start_ts < q.start_ts => RLess(r.sum, q.sum)

Newest(rows) == CHOOSE r \in rows : \A q \in rows : q.start_ts <= r.start_ts

\* sum(newest row that starts before end) - sum(last row that ends at or
\* before start), the latter 0 when there is no such row
ExpectedChange(statistic_id, start_time, end_time) ==
    LET rows == Series(statistic_id)
        d == Duration(SeriesTable(statistic_id))
        before_end == {r \in rows : r.start_ts < end_time}
        before_start == {r \in rows : r.start_ts + d <= start_time}
    IN  RSub(Newest(before_end).sum,
             IF before_start = {} THEN R(0) ELSE Newest(before_start).sum)

\* C8: for a statistic whose sum is strictly increasing, the change over
\* every range start < end is >= 0 and equals the sum of the newest row
\* that starts before end minus the sum of the last row that ends at or
\* before start (0 when the range begins at or before the oldest row)
C8_ChangeMonotone ==
    /\ last.op = "statistic_during_period"
    /\ "change" \in last.types
    /\ last.start_time # NoTime
    /\ last.end_time # NoTime
    /\ last.end_time <= last.now
    /\ StrictlyIncreasingSum(Series(last.statistic_id))
    => /\ ~IsNull(last.result["change"])
       /\ RLeq(R(0), last.result["change"])
       /\ last.result["change"] =
              ExpectedChange(last.statistic_id, last.start_time, last.end_time)

\* the sub-ranges of a query that has all three: head [start, next hour),
\* main [next hour, last hour <= end), tail [last hour <= end, end)
NextHour(ts) == ReplaceMinSec0(ts) + LongTermDuration

ClampedEnd == IF last.end_time > last.now THEN last.now ELSE last.end_time

HasHeadMainTail ==
    /\ last.op = "statistic_during_period"
    /\ "mean" \in last.types
    /\ last.start_time # NoTime
    /\ last.end_time # NoTime
    /\ Minute(last.start_time) # 0
    /\ Minute(ClampedEnd) # 0
    /\ NextHour(last.start_time) < ReplaceMinSec0(ClampedEnd)

MeansIn(table, from, to) ==
    {r \in RowsOf(table, last.statistic_id) :
        from <= r.start_ts /\ r.start_ts < to /\ ~IsNull(r.mean)}

HeadMeans == MeansIn(short, last.start_time, NextHour(last.start_time))
MainMeans == MeansIn(long, NextHour(last.start_time), ReplaceMinSec0(ClampedEnd))
TailMeans == MeansIn(short, ReplaceMinSec0(ClampedEnd), ClampedEnd)

\* avg_i * n_i * d_i of a sub-range, 0 when it has no non-null mean
Weighted(rows, d) ==
    IF rows = {} THEN R(0)
    ELSE RMulInt(AvgCol(rows, "mean"), Cardinality(rows) * d)

Weight(rows, d) == Cardinality(rows) * d

\* C9: for a range with head, main and tail, the mean is the sum of
\* avg_i * n_i * d_i over the sum of n_i * d_i, taken over the sub-ranges
\* with a non-null mean (d = 300 s for head and tail, 3600 s for main), and
\* null when no sub-range has a non-null mean
C9_TimeWeightedMean ==
    HasHeadMainTail =>
        LET total == Weight(HeadMeans, ShortTermDuration)
                     + Weight(MainMeans, LongTermDuration)
                     + Weight(TailMeans, ShortTermDuration)
            acc == RAdd(RAdd(Weighted(HeadMeans, ShortTermDuration),
                             Weighted(MainMeans, LongTermDuration)),
                        Weighted(TailMeans, ShortTermDuration))
        IN  last.result["mean"] =
                IF total = 0 THEN Null ELSE RDivInt(acc, total)

\* a query whose head, main and tail all hold means, with different
\* averages, and that returned a mean
C9_Witness ==
    /\ HasHeadMainTail
    /\ HeadMeans # {} /\ MainMeans # {} /\ TailMeans # {}
    /\ AvgCol(HeadMeans, "mean") # AvgCol(MainMeans, "mean")
    /\ Cardinality(HeadMeans) # Cardinality(TailMeans)
    /\ ~IsNull(last.result["mean"])

\* a query with head, main and tail over a statistic without means
C9_WitnessNull ==
    /\ HasHeadMainTail
    /\ HeadMeans = {} /\ MainMeans = {} /\ TailMeans = {}
    /\ IsNull(last.result["mean"])


----------------------------------------------------------------------------
(* The frame of adjust_statistics *)

\* the table with adj added to the sum of the rows of metadata_id that start
\* at or after boundary, every other row and column as it was
AdjustedFrom(table, metadata_id, boundary, adj) ==
    {[id |-> r.id, metadata_id |-> r.metadata_id, start_ts |-> r.start_ts,
      mean |-> r.mean, min |-> r.min, max |-> r.max,
      last_reset_ts |-> r.last_reset_ts, state |-> r.state,
      sum |-> IF r.metadata_id = metadata_id /\ r.start_ts >= boundary
                 /\ ~IsNull(r.sum)
              THEN RAdd(r.sum, adj) ELSE r.sum] : r \in table}

\* C10: adjust_statistics adds the adjustment, converted to the stored
\* unit, to the sum of every row of the statistic with start_ts >=
\* start_time in the short-term table and with start_ts >= start_time
\* truncated to the hour in the long-term table; rows before the boundary,
\* rows of other statistics and every other column are left unchanged
C10_AdjustFrame ==
    [][Ran("adjust_statistics")
       /\ (\E m \in meta :
              /\ m.statistic_id = last'.statistic_id
              /\ last'.adjustment_unit \in
                     ValidUnits(m.unit_of_measurement))
       => \E m \in meta :
            /\ m.statistic_id = last'.statistic_id
            /\ LET adj == RDivInt(
                              RMulInt(last'.sum_adjustment,
                                      UnitScale(last'.adjustment_unit)),
                              UnitScale(m.unit_of_measurement))
               IN  /\ short' = AdjustedFrom(short, m.id,
                                            last'.start_time, adj)
                   /\ long' = AdjustedFrom(
                                  long, m.id,
                                  last'.start_time
                                      - (last'.start_time % LongTermDuration),
                                  adj)
            /\ meta' = meta
            /\ runs' = runs]_vars


----------------------------------------------------------------------------
(* Changing the unit of a statistic *)

\* value * size of old_unit / size of new_unit, null staying null
Rescaled(value, old_unit, new_unit) ==
    IF IsNull(value) THEN value
    ELSE RDivInt(RMulInt(value, UnitScale(old_unit)), UnitScale(new_unit))

\* the table with the five value columns of the rows of metadata_id rescaled
RescaledTable(table, metadata_id, old_unit, new_unit) ==
    {[id |-> r.id, metadata_id |-> r.metadata_id, start_ts |-> r.start_ts,
      last_reset_ts |-> r.last_reset_ts,
      mean |-> IF r.metadata_id = metadata_id
               THEN Rescaled(r.mean, old_unit, new_unit) ELSE r.mean,
      min |-> IF r.metadata_id = metadata_id
              THEN Rescaled(r.min, old_unit, new_unit) ELSE r.min,
      max |-> IF r.metadata_id = metadata_id
              THEN Rescaled(r.max, old_unit, new_unit) ELSE r.max,
      state |-> IF r.metadata_id = metadata_id
                THEN Rescaled(r.state, old_unit, new_unit) ELSE r.state,
      sum |-> IF r.metadata_id = metadata_id
              THEN Rescaled(r.sum, old_unit, new_unit) ELSE r.sum] : r \in table}

\* C11: change_statistics_unit rewrites mean, min, max, state and sum of
\* every row of the statistic in both tables through the old-to-new
\* converter and sets the descriptor's unit to the new unit only when the
\* statistic exists and its stored unit equals old_unit when the task runs;
\* otherwise no row and no descriptor changes. A second identical task
\* (old different from new) therefore changes nothing
C11_ChangeUnitGuard ==
    [][Ran("change_statistics_unit") =>
        /\ \/ UNCHANGED tables
           \/ \E m \in meta :
                /\ m.statistic_id = last'.statistic_id
                /\ m.unit_of_measurement = last'.old_unit
                /\ short' = RescaledTable(short, m.id, last'.old_unit,
                                          last'.new_unit)
                /\ long' = RescaledTable(long, m.id, last'.old_unit,
                                         last'.new_unit)
                /\ meta' = (meta \ {m}) \cup
                       {[m EXCEPT !.unit_of_measurement = last'.new_unit]}
                /\ runs' = runs
        /\ last'.old_unit # last'.new_unit =>
               change_statistics_unit(
                   [meta |-> meta', short |-> short', long |-> long',
                    runs |-> runs'],
                   last'.statistic_id, last'.new_unit, last'.old_unit)
               = [meta |-> meta', short |-> short', long |-> long',
                  runs |-> runs']]_vars

\* sensor.energy, compiled in kWh with sums 11 or 12, was changed to Wh
C11_Witness ==
    /\ last.op = "change_statistics_unit"
    /\ last.new_unit = "Wh" /\ last.old_unit = "kWh"
    /\ \E m \in meta :
         /\ m.statistic_id = last.statistic_id
         /\ m.unit_of_measurement = "Wh"
         /\ \E r \in short : /\ r.metadata_id = m.id
                             /\ r.sum \in {R(11000), R(12000)}
                             /\ r.state = r.sum


----------------------------------------------------------------------------
(* Duplicate repair *)

RepairDone ==
    /\ last.op = "delete_statistics_duplicates"
    /\ job.pc = "done"

SameStart(r, q) == r.metadata_id = q.metadata_id /\ r.start_ts = q.start_ts

\* the (metadata_id, start) of r had several rows before the repair
HadSeveral(before, r) == \E q \in before : SameStart(q, r) /\ q.id # r.id

\* C12 as stated: after the repair, of the rows that shared a
\* (metadata_id, start) exactly one remains, the one with the lowest id
C12_LowestIdKept ==
    RepairDone =>
        \A t \in {"short", "long"} :
          \A r \in last.before[t] :
            HadSeveral(last.before[t], r) =>
              /\ Cardinality({q \in Db[t] : SameStart(q, r)}) = 1
              /\ \A q \in Db[t] : SameStart(q, r) =>
                   \A x \in last.before[t] : SameStart(x, r) => q.id <= x.id

\* C12 amended: after the repair, of the rows that shared a
\* (metadata_id, start) exactly one remains, the one with the highest id
\* (the rows are read ORDER BY id DESC and the first of each group is kept)
C12_HighestIdKept ==
    RepairDone =>
        \A t \in {"short", "long"} :
          \A r \in last.before[t] :
            HadSeveral(last.before[t], r) =>
              /\ Cardinality({q \in Db[t] : SameStart(q, r)}) = 1
              /\ \A q \in Db[t] : SameStart(q, r) =>
                   /\ q \in last.before[t]
                   /\ \A x \in last.before[t] : SameStart(x, r) => x.id <= q.id

\* a repair that found three rows for one period, which takes several
\* rounds of the loop, and duplicates in the other table too
C12_Witness ==
    /\ RepairDone
    /\ \E t \in {"short", "long"} :
         \E r \in last.before[t] :
           Cardinality({q \in last.before[t] : SameStart(q, r)}) >= 3
    /\ Cardinality(last.before.short) > Cardinality(short)
    /\ Cardinality(last.before.long) > Cardinality(long)

\* a deleted row differs from the row kept for its (metadata_id, start) in
\* a column other than id and created
DeletedDiffers(t) ==
    \E r \in last.before[t] \ Db[t] :
      \E q \in Db[t] :
        /\ SameStart(q, r)
        /\ \/ q.mean # r.mean \/ q.min # r.min \/ q.max # r.max
           \/ q.last_reset_ts # r.last_reset_ts
           \/ q.state # r.state \/ q.sum # r.sum

\* C13: duplicate repair writes a backup file if and only if at least one
\* deleted duplicate differs from the row kept for its (metadata_id, start)
\* in a column other than id and created, for duplicates found in either
\* statistics table
C13_BackupIffDiffers ==
    RepairDone => (job.backup <=> DeletedDiffers("long") \/ DeletedDiffers("short"))


----------------------------------------------------------------------------
(* Bucket alignment *)

\* C14: every persisted row's start_ts is a multiple of its table's period,
\* 300 s in the short-term table and 3600 s in the long-term table
C14_BucketAlignment ==
    /\ \A r \in short : r.start_ts % ShortTermDuration = 0
    /\ \A r \in long : r.start_ts % LongTermDuration = 0


----------------------------------------------------------------------------
(* Rows and the flags of their descriptor *)

\* C15: a row whose descriptor has has_mean false has null mean, min and
\* max, and a row whose descriptor has has_sum false has null sum, state
\* and last_reset
C15_FlagsMatchColumns ==
    \A table \in {short, long} :
      \A r \in table :
        \A m \in meta :
          m.id = r.metadata_id =>
            /\ ~m.has_mean =>
                 IsNull(r.mean) /\ IsNull(r.min) /\ IsNull(r.max)
            /\ ~m.has_sum =>
                 IsNull(r.sum) /\ IsNull(r.state) /\ IsNull(r.last_reset_ts)


----------------------------------------------------------------------------
(* Unique-constraint violations *)

\* C16: when a compaction or import transaction hits a unique-constraint
\* violation, every uncommitted write of the transaction is rolled back,
\* the job reports finished and the task is not re-enqueued
C16_ViolationRolledBackAndFinished ==
    [][(Ran("compile_statistics") \/ Ran("import_statistics"))
       /\ ~last'.committed
       => /\ UNCHANGED tables
          /\ last'.returned = "True"
          /\ queue' = queue]_vars

----------------------------------------------------------------------------
(* The task queue *)

\* the step is the recorder thread running the task at the head of the queue
WorkerRan == job.pc = "worker" /\ nops' = nops + 1

\* the job of that task raised a retryable database error
JobFailedRetryable == WorkerRan /\ "failed" \in DOMAIN last'

C18_SuccessorIffNotFinished ==
    [][WorkerRan
       => /\ last'.returned = "False"
               => queue' = Append(Tail(queue), Head(queue))
          /\ last'.returned = "True" => queue' = Tail(queue)]_vars

\* C18, amended: a self-rescheduling task queues exactly one successor with
\* its own parameters, behind the tasks already waiting, when its job
\* reports not finished; when the job reports finished it queues nothing,
\* except EntityIDMigrationTask, which then queues one
\* EntityIDPostMigrationTask
C18_SuccessorOrPostMigration ==
    [][WorkerRan
       => /\ last'.returned = "False"
               => queue' = Append(Tail(queue), Head(queue))
          /\ last'.returned = "True"
               => IF Head(queue).type = "EntityIDMigrationTask"
                  THEN queue' = Append(Tail(queue), EntityIDPostMigrationTask)
                  ELSE queue' = Tail(queue)]_vars

\* a job reported not finished while another task was waiting: the
\* successor stands behind that task
C18_Witness ==
    /\ job.pc = "worker"
    /\ last.op # "init"
    /\ last.returned = "False"
    /\ Len(queue) >= 2
    /\ queue[Len(queue)].type # queue[1].type

\* C19: compaction writes are monotonic in start_ts for every statistic: no
\* compaction inserts a short-term row whose start_ts is lower than that of
\* a row an earlier compaction wrote for the same statistic, in whatever
\* order the worker runs the StatisticsTask and
\* CompileMissingStatisticsTask instances
C19_MonotonicCompaction ==
    [][\A r \in short' \ short :
         \A x \in short :
           x.metadata_id = r.metadata_id => x.start_ts <= r.start_ts]_vars

----------------------------------------------------------------------------
(* What the rollup reads *)

\* the step is a committed compaction that rolled up the hour of its start
RolledUp == Ran("compile_statistics") /\ last'.hourly /\ last'.committed

\* C20 as stated: whenever the rollup of hour H runs, the short-term rows it
\* reads hold, for every statistic reported during H, the rows of all
\* twelve 5-minute periods of H
C20_AllTwelvePeriods ==
    [][RolledUp
       => \A mid \in {r.metadata_id : r \in last'.hourly_rows} :
            \A k \in 0..11 :
              \E r \in last'.hourly_rows :
                /\ r.metadata_id = mid
                /\ r.start_ts = ReplaceMinute0(last'.start)
                                  + k * ShortTermDuration]_vars

\* C20, amended: whenever the rollup of hour H runs, the short-term rows it
\* reads are all the short-term rows with start in [H, H + 1h) written so
\* far, and the :55 rows inserted earlier in the same transaction are
\* among them
C20_ReadsHourWithOwnInserts ==
    [][RolledUp
       => /\ last'.hourly_rows =
               {r \in short' : /\ r.start_ts >= ReplaceMinute0(last'.start)
                               /\ r.start_ts < ReplaceMinute0(last'.start)
                                                 + LongTermDuration}
          /\ short' \ short \subseteq last'.hourly_rows
          /\ \A r \in short' \ short : r.start_ts = last'.start
          /\ Cardinality(short' \ short) = last'.nstats]_vars

\* a rollup read the :55 rows of its own transaction, the twelve rows of
\* one statistic and fewer rows of another
C20_Witness ==
    /\ last.op = "compile_statistics"
    /\ last.hourly
    /\ last.committed
    /\ last.nstats > 0
    /\ \E r \in last.hourly_rows : r.start_ts = last.start
    /\ \E r \in last.hourly_rows :
         Cardinality({x \in last.hourly_rows :
                         x.metadata_id = r.metadata_id}) = 12
    /\ \E r \in last.hourly_rows :
         Cardinality({x \in last.hourly_rows :
                         x.metadata_id = r.metadata_id}) < 12


----------------------------------------------------------------------------
(* SpecOrder: an import or adjust task and a compaction wait in the queue,
   in one order or the other, and the recorder thread runs them *)

\* the periods compiled before the two tasks are queued
MaxSetup == 2

\* the compaction of the pair: the last period of the hour H
OrderStart == LongTermDuration - ShortTermDuration

OrderImports ==
    { ImportStatisticsTask(EnergyMeta("kWh"),
                           << [start |-> 0, state |-> R(7), sum |-> R(100)] >>,
                           "long"),
      ImportStatisticsTask(EnergyMeta("kWh"),
                           << [start |-> LongTermDuration, sum |-> R(150)] >>,
                           "long"),
      ImportStatisticsTask(EnergyMeta("Wh"),
                           << [start |-> LongTermDuration, sum |-> R(150)] >>,
                           "long"),
      ImportStatisticsTask(GridMeta, << [start |-> 0, sum |-> R(100)] >>,
                           "long") }

OrderAdjusts ==
    { AdjustStatisticsTask("sensor.energy", OrderStart, R(5), "kWh"),
      AdjustStatisticsTask("sensor.energy", OrderStart - ShortTermDuration,
                           R(5), "kWh"),
      AdjustStatisticsTask("sensor.energy", LongTermDuration, R(5), "kWh") }

OrderPlatformStats ==
    { FullPeriod(OrderStart),
      << [meta |-> PowerMeta, stat |-> PowerStat(OrderStart, 1)] >>,
      <<>> }

\* the periods before OrderStart are compiled one after the other
OrderSetup ==
    /\ job.pc = "setup"
    /\ nops < MaxSetup
    /\ LET start == OrderStart - (MaxSetup - nops) * ShortTermDuration
       IN  \E ps \in {FullPeriod(start), <<>>} :
             StatisticsTask_run(start, TRUE, ps)
    /\ nops' = nops + 1
    /\ UNCHANGED <<queue, job>>

\* the two tasks are queued, in one order or the other; platform_stats is
\* what the platforms will report for the period of the compaction
OrderQueue ==
    /\ job.pc = "setup"
    /\ nops = MaxSetup
    /\ \E other \in OrderImports \cup OrderAdjusts :
         \E ps \in OrderPlatformStats :
           \E q \in { << other, StatisticsTask(OrderStart, TRUE) >>,
                      << StatisticsTask(OrderStart, TRUE), other >> } :
             /\ queue' = q
             /\ job' = [pc |-> "pair", before |-> Db, other |-> other,
                        platform_stats |-> ps, first |-> q[1].type]
    /\ UNCHANGED <<tables, nops, last>>

OrderTakes(type) ==
    /\ job.pc = "pair"
    /\ queue # <<>>
    /\ Head(queue).type = type
    /\ queue' = Tail(queue)
    /\ nops' = nops + 1
    /\ UNCHANGED job

OrderRunStatisticsTask ==
    /\ OrderTakes("StatisticsTask")
    /\ StatisticsTask_run(Head(queue).start, Head(queue).fire_events,
                          job.platform_stats)

OrderRunImportStatisticsTask ==
    /\ OrderTakes("ImportStatisticsTask")
    /\ ImportStatisticsTask_run(Head(queue).metadata, Head(queue).statistics,
                                Head(queue).table)

OrderRunAdjustStatisticsTask ==
    /\ OrderTakes("AdjustStatisticsTask")
    /\ AdjustStatisticsTask_run(Head(queue).statistic_id,
                                Head(queue).start_time,
                                Head(queue).sum_adjustment,
                                Head(queue).adjustment_unit)

InitOrder ==
    /\ meta = {}
    /\ short = {}
    /\ long = {}
    /\ runs = {}
    /\ queue = <<>>
    /\ nops = 0
    /\ last = [op |-> "init"]
    /\ job = [pc |-> "setup"]

NextOrder ==
    \/ OrderSetup
    \/ OrderQueue
    \/ OrderRunStatisticsTask
    \/ OrderRunImportStatisticsTask
    \/ OrderRunAdjustStatisticsTask

SpecOrder == InitOrder /\ [][NextOrder]_vars


----------------------------------------------------------------------------
(* Import or adjust against compaction *)

\* the two tasks of the pair have run
OrderDone == job.pc = "pair" /\ queue = <<>>

StatId(db, metadata_id) ==
    (CHOOSE m \in db.meta : m.id = metadata_id).statistic_id

\* the rows of a table without their surrogate keys
Keyed(db, t) ==
    { << StatId(db, r.metadata_id), [r EXCEPT !.id = 0, !.metadata_id = 0] >> :
        r \in db[t] }

KeyedMeta(db) == { [m EXCEPT !.id = 0] : m \in db.meta }

\* the import or adjust task of the pair, run on db
OrderApplyOther(db) ==
    IF job.other.type = "ImportStatisticsTask"
    THEN CHOOSE out \in
           { IF IntegrityOk(r) THEN r ELSE db :
               r \in { _import_statistics_with_session(
                           db, job.other.metadata, job.other.statistics,
                           job.other.table) } } : TRUE
    ELSE adjust_statistics(db, job.other.statistic_id, job.other.start_time,
                           job.other.sum_adjustment,
                           job.other.adjustment_unit)

\* the compaction of the pair, run on db
OrderApplyCompile(db) ==
    CHOOSE out \in
      { IF IntegrityOk(r.db) THEN r.db ELSE db :
          r \in { _compile_statistics(db, OrderStart, TRUE,
                                      job.platform_stats) } } : TRUE

OtherFirst == OrderApplyCompile(OrderApplyOther(job.before))

CompileFirst == OrderApplyOther(OrderApplyCompile(job.before))

\* the (table, statistic_id, start_ts) of the rows db1 has and db0 has not
WrittenPairs(db0, db1) ==
    UNION { { << t, k[1], k[2].start_ts >> :
                k \in Keyed(db1, t) \ Keyed(db0, t) } :
            t \in {"short", "long"} }

\* the pairs the compaction writes, run first or second
CompilePairs ==
    WrittenPairs(job.before, OrderApplyCompile(job.before))
    \cup WrittenPairs(OrderApplyOther(job.before), OtherFirst)

\* the pairs the import or adjust task targets
OtherTargets(p) ==
    IF job.other.type = "ImportStatisticsTask"
    THEN /\ p[1] = job.other.table
         /\ p[2] = job.other.metadata.statistic_id
         /\ \E i \in 1..Len(job.other.statistics) :
              job.other.statistics[i].start = p[3]
    ELSE /\ p[2] = job.other.statistic_id
         /\ p[3] >= (IF p[1] = "short" THEN job.other.start_time
                     ELSE AdjustLongStart(job.other.start_time))

Collisions == {p \in CompilePairs : OtherTargets(p)}

RowAt(db, p) ==
    CHOOSE r \in db[p[1]] :
      StatId(db, r.metadata_id) = p[2] /\ r.start_ts = p[3]

HasRowAt(db, p) ==
    \E r \in db[p[1]] : StatId(db, r.metadata_id) = p[2] /\ r.start_ts = p[3]

\* the collision at p is resolved by replacement (import) or addition (adjust)
Resolved(p) ==
    /\ HasRowAt(Db, p)
    /\ IF job.other.type = "ImportStatisticsTask"
       THEN \E i \in 1..Len(job.other.statistics) :
              LET x == from_stats(0, 0, job.other.statistics[i])
              IN  /\ x.start_ts = p[3]
                  /\ [RowAt(Db, p) EXCEPT !.id = 0, !.metadata_id = 0] = x
       ELSE /\ HasRowAt(OrderApplyCompile(job.before), p)
            /\ RowAt(Db, p).sum =
                 SqlAdd(RowAt(OrderApplyCompile(job.before), p).sum,
                        job.other.sum_adjustment)

\* the final rows and RunMarkers do not depend on the order
SameRowsEitherOrder ==
    /\ \A t \in {"short", "long"} : Keyed(OtherFirst, t) = Keyed(CompileFirst, t)
    /\ {r.start : r \in OtherFirst.runs} = {r.start : r \in CompileFirst.runs}

\* C21 as stated: an import or adjust task and a compaction that touch
\* different (metadata_id, start_ts) pairs leave the same final tables in
\* either order; on a common pair the imported values replace the row or
\* the adjustment is added to the row's sum, in whichever order they run
C21_CommuteOrResolveAnyOrder ==
    OrderDone
    => /\ Collisions = {}
            => SameRowsEitherOrder /\ KeyedMeta(OtherFirst) = KeyedMeta(CompileFirst)
       /\ \A p \in Collisions : Resolved(p)

\* C21, amended: with different pairs the two orders leave the same
\* short-term rows, long-term rows and RunMarkers; on a common pair the
\* import replaces and the adjust adds when the compaction ran first; when
\* the import ran first the whole compaction is rolled back and the
\* imported row stays; when the adjust ran first the short-term row the
\* compaction inserts carries the sum the platform reported
C21_CommuteOrResolveCompileFirst ==
    OrderDone
    => /\ Collisions = {} => SameRowsEitherOrder
       /\ job.first = "StatisticsTask" => \A p \in Collisions : Resolved(p)
       /\ job.first = "ImportStatisticsTask" /\ Collisions # {}
            => /\ Db = OrderApplyOther(job.before)
               /\ \A p \in Collisions : Resolved(p)
       /\ job.first = "AdjustStatisticsTask"
            => \A p \in Collisions :
                 p[1] = "short" /\ ~HasRowAt(job.before, p)
                   => \E i \in 1..Len(job.platform_stats) :
                        /\ job.platform_stats[i].meta.statistic_id = p[2]
                        /\ RowAt(Db, p).sum = job.platform_stats[i].stat.sum

\* the compaction ran first and wrote the hourly row the import then
\* replaced
C21_Witness ==
    /\ OrderDone
    /\ job.first = "StatisticsTask"
    /\ job.other.type = "ImportStatisticsTask"
    /\ Collisions # {}
    /\ last.op = "import_statistics"


(***************************************************************************)
(* Catching up at startup: compile_missing_statistics runs once, at the    *)
(* time now and with a retention of keep seconds, on a database that       *)
(* earlier imports and compactions have filled.                            *)
(***************************************************************************)
MaxCatchUpSetup == 1

\* the times at which the recorder starts, with its retention
CatchUpClocks ==
    { [now |-> LongTermDuration + ShortTermDuration,
       keep |-> LongTermDuration],
      [now |-> LongTermDuration + ShortTermDuration + 115,
       keep |-> LongTermDuration],
      [now |-> 12 * LongTermDuration + 3 * ShortTermDuration,
       keep |-> LongTermDuration],
      [now |-> LongTermDuration + ShortTermDuration,
       keep |-> 24 * LongTermDuration] }

CatchUpImports ==
    { ImportStatisticsTask(EnergyMeta("kWh"),
                           << [start |-> 0, state |-> R(7), sum |-> R(100)] >>,
                           "long"),
      ImportStatisticsTask(EnergyMeta("Wh"),
                           << [start |-> 3 * LongTermDuration,
                               sum |-> R(150)] >>,
                           "long"),
      ImportStatisticsTask(GridMeta, << [start |-> 0, sum |-> R(100)] >>,
                           "long") }

CatchUpStarts ==
    {LongTermDuration - 2 * ShortTermDuration,
     LongTermDuration - ShortTermDuration,
     LongTermDuration + ShortTermDuration}

CatchUpImport ==
    /\ job.pc = "catchup"
    /\ nops < MaxCatchUpSetup
    /\ \E task \in CatchUpImports :
         ImportStatisticsTask_run(task.metadata, task.statistics, task.table)
    /\ nops' = nops + 1
    /\ UNCHANGED <<queue, job>>

CatchUpStatisticsTask ==
    /\ job.pc = "catchup"
    /\ nops < MaxCatchUpSetup
    /\ \E start \in CatchUpStarts :
         StatisticsTask_run(start, TRUE, WorkerPlatform(start))
    /\ nops' = nops + 1
    /\ UNCHANGED <<queue, job>>

\* compile_missing_statistics starts: the loop is entered with an open
\* session; meta, short, long and runs hold what is committed
CatchUpBegin ==
    /\ job.pc = "catchup"
    /\ \E clock \in CatchUpClocks :
         \E begin \in {CompileMissingStart(Db, clock.now, clock.keep)} :
           job' = [pc |-> "loop", now |-> clock.now, keep |-> clock.keep,
                   before |-> Db, first |-> begin.start,
                   start |-> begin.start, last_period |-> begin.last_period,
                   acc |-> begin.acc]
    /\ UNCHANGED <<meta, short, long, runs, queue, nops, last>>

\* one turn of the while loop
CatchUpTurn ==
    /\ job.pc = "loop"
    /\ job.start < job.last_period
    /\ ~job.acc.raised
    /\ \E turn \in {CompileMissingStep(job.acc, job.start, job.last_period)} :
         /\ meta' = turn.committed.meta
         /\ short' = turn.committed.short
         /\ long' = turn.committed.long
         /\ runs' = turn.committed.runs
         /\ job' = [job EXCEPT !.acc = turn,
                               !.start = job.start + ShortTermDuration]
    /\ UNCHANGED <<queue, nops, last>>

\* the loop is left, session_scope commits or rolls back, the job returns
CatchUpEnd ==
    /\ job.pc = "loop"
    /\ job.start >= job.last_period \/ job.acc.raised
    /\ \E end \in {CompileMissingEnd(job.acc)} :
         /\ meta' = end.db.meta
         /\ short' = end.db.short
         /\ long' = end.db.long
         /\ runs' = end.db.runs
         /\ job' = [pc |-> "caught", now |-> job.now, keep |-> job.keep,
                    before |-> job.before, first |-> job.first,
                    last_period |-> job.last_period,
                    pending |-> job.acc.db,
                    committed |-> job.acc.committed,
                    compiled |-> end.compiled, changed |-> end.changed,
                    commits |-> end.commits, fired |-> end.fired,
                    raised |-> end.raised]
         /\ last' = [op |-> "compile_missing_statistics",
                     start |-> job.first,
                     last_period |-> job.last_period,
                     returned |-> "True"]
    /\ nops' = nops + 1
    /\ UNCHANGED queue

InitCatchUp ==
    /\ meta = {}
    /\ short = {}
    /\ long = {}
    /\ runs = {}
    /\ queue = <<>>
    /\ nops = 0
    /\ last = [op |-> "none"]
    /\ job = [pc |-> "catchup"]

NextCatchUp ==
    \/ CatchUpImport
    \/ CatchUpStatisticsTask
    \/ CatchUpBegin
    \/ CatchUpTurn
    \/ CatchUpEnd

SpecCatchUp == InitCatchUp /\ [][NextCatchUp]_vars


(***************************************************************************)
(* The periods compile_missing_statistics compiles                         *)
(***************************************************************************)
Caught == job.pc = "caught"

\* the first period to catch up with, from the clock and the RunMarkers
\* the database held when the job started
FirstMissing ==
    LET floor == (job.now - job.keep) - ((job.now - job.keep) % 3600)
        marks == {r.start : r \in job.before.runs}
    IN  IF marks # {} /\ \E m \in marks : m + 300 > floor
        THEN 300 + CHOOSE m \in marks : \A o \in marks : o <= m
        ELSE floor

\* the start of the 5-minute period that contains now
PeriodOfNow == job.now - (job.now % 300)

\* the periods from FirstMissing up to the period of now, in order
MissingPeriods ==
    LET n == IF PeriodOfNow > FirstMissing
             THEN (PeriodOfNow - FirstMissing) \div 300 ELSE 0
    IN  [i \in 1..n |-> FirstMissing + (i - 1) * 300]

SeqRange(seq) == {seq[i] : i \in 1..Len(seq)}

\* the i-th compiled period is followed by a commit exactly when it changed
\* a descriptor or is the 144th period since the last commit (or the start)
CommitDue(i) ==
    LET committed_at(k) == job.compiled[k] \in SeqRange(job.commits)
    IN  committed_at(i) <=>
          \/ job.compiled[i] \in SeqRange(job.changed)
          \/ /\ i >= 144
             /\ \A k \in (i - 143)..(i - 1) : ~committed_at(k)
             /\ i = 144 \/ committed_at(i - 144)

\* the RunMarkers of the periods in ps
Markers(ps) == {r \in runs : r.start \in ps}

\* C22 (as stated): compile_missing_statistics compiles, in ascending
\* 5-minute steps, every period from max(now - keep_days floored to the
\* hour, newest RunMarker + 5 min) up to but excluding the period that
\* contains now, none of them ending after now; it commits after every 144
\* periods and after every period that changed a descriptor; every one of
\* these periods has its RunMarker when the job is done
C22_CompilesEveryMissingPeriod ==
    Caught =>
        /\ job.compiled = MissingPeriods
        /\ \A i \in 1..Len(job.compiled) :
             job.compiled[i] + 300 <= job.now /\ CommitDue(i)
        /\ \A p \in SeqRange(MissingPeriods) : Markers({p}) # {}

\* C22 (amended): the same as long as no IntegrityError leaves the loop;
\* when one does, the periods compiled are a prefix of the missing periods,
\* what was compiled since the last commit is rolled back, the later
\* periods are not compiled, and the job still returns True
C22_CompilesEveryMissingPeriodUnlessRaised ==
    Caught =>
        /\ last.returned = "True"
        /\ \A i \in 1..Len(job.compiled) :
             /\ i <= Len(MissingPeriods) /\ job.compiled[i] = MissingPeriods[i]
             /\ job.compiled[i] + 300 <= job.now
             /\ (~job.raised \/ i < Len(job.compiled)) => CommitDue(i)
        /\ ~job.raised =>
             /\ job.compiled = MissingPeriods
             /\ Db = job.pending
             /\ \A p \in SeqRange(MissingPeriods) : Markers({p}) # {}
        /\ job.raised =>
             /\ Db = job.committed
             /\ \A i \in 1..Len(MissingPeriods) :
                  Markers({MissingPeriods[i]}) # {} <=>
                    \E k \in i..Len(job.compiled) :
                      job.compiled[k] \in SeqRange(job.commits)

\* a catch-up of more than 144 periods that committed once for the count
\* and once for a changed descriptor, and one that started after a RunMarker
C22_Witness ==
    /\ Caught
    /\ ~job.raised
    /\ Len(job.compiled) > 144
    /\ \E p \in SeqRange(job.commits) : p \notin SeqRange(job.changed)
    /\ \E p \in SeqRange(job.commits) : p \in SeqRange(job.changed)

C22_WitnessRaised ==
    /\ Caught
    /\ job.raised
    /\ Len(job.compiled) < Len(MissingPeriods)


(***************************************************************************)
(* When the hourly rollup runs and what it adds                            *)
(***************************************************************************)
Compacted == nops' = nops + 1 /\ last'.op = "compile_statistics"

\* the rollup of the call that just ended ran its statements to the end
RollupDone == last.op = "compile_statistics" /\ last.hourly /\ ~last.raised

\* what the rollup recorded in l added to the session: exactly one
\* long-term row, with start_ts = H, for every metadata_id with a short-term
\* row in [H, H+1h), null in mean, min and max when those rows carry none
OneRowPerStatisticOfTheHour(l) ==
    LET H == l.start - (l.start % 3600)
        inhour == l.hourly_rows
    IN  /\ \A r \in inhour :
             Cardinality({a \in l.hourly_added :
                             a.metadata_id = r.metadata_id}) = 1
        /\ \A a \in l.hourly_added :
             /\ a.start_ts = H
             /\ \E r \in inhour : r.metadata_id = a.metadata_id
             /\ (\A r \in inhour :
                    r.metadata_id = a.metadata_id =>
                      r.mean = Null /\ r.min = Null /\ r.max = Null)
                => a.mean = Null /\ a.min = Null /\ a.max = Null

\* C23: a compaction call runs the hourly rollup exactly when start.minute
\* = 55 and no RunMarker(start) exists; a rollup whose statements run to
\* the end adds exactly one long-term row, with start_ts = H, for every
\* metadata_id that has a short-term row in [H, H+1h), and that row has
\* null mean, min and max when the statistic has no mean, min or max in
\* the hour
C23_RollupAt55OneRowPerStatistic ==
    [][Compacted =>
         /\ last'.hourly <=>
              /\ (last'.start % 3600) \div 60 = 55
              /\ ~\E r \in runs : r.start = last'.start
         /\ (last'.hourly /\ ~last'.raised)
              => OneRowPerStatisticOfTheHour(last')
         /\ ~last'.hourly => last'.hourly_added = {}]_vars

\* a committed rollup over an hour with a sum-only statistic and a
\* statistic with means
C23_Witness ==
    /\ RollupDone
    /\ last.committed
    /\ \E a \in last.hourly_added : a.mean = Null /\ a.sum # Null
    /\ \E a \in last.hourly_added : a.mean # Null


(***************************************************************************)
(* Reading series: statistics_during_period, get_last_statistics,          *)
(* get_latest_short_term_statistics.  H is taken to be midnight UTC of a   *)
(* Monday that is the first day of a 31-day month followed by a 30-day     *)
(* month (as 2023-05-01), and DEFAULT_TIME_ZONE to be UTC.                 *)
(***************************************************************************)
MaxReadSetup == 2

Day == 24 * LongTermDuration

\* converter.UNIT_CLASS of the converter of the unit, "None" without one
UnitClass(unit) ==
    IF unit \in {"Wh", "kWh"} THEN "energy"
    ELSE IF unit \in {"W", "kW"} THEN "power"
    ELSE "None"

\* _get_statistic_to_display_unit_converter: the converter, none |-> TRUE
\* for None; requested_units is a function from unit classes to units (the
\* empty function for None or {}).  First the mutant in which the unit of
\* the live entity goes before the requested unit
display_unit_converter_prefers_state(statistic_unit, state_unit, requested_units) ==
    IF \/ ValidUnits(statistic_unit) = {}
       \/ state_unit \notin ValidUnits(statistic_unit)
       \/ state_unit = statistic_unit
    THEN [none |-> TRUE]
    ELSE [none |-> FALSE, from |-> statistic_unit, to |-> state_unit]
_get_statistic_to_display_unit_converter(statistic_unit, state_unit, requested_units) ==
    LET unit_class == UnitClass(statistic_unit)
        display_unit == IF unit_class \in DOMAIN requested_units
                        THEN requested_units[unit_class]
                        ELSE state_unit
    IN  IF \/ ValidUnits(statistic_unit) = {}
           \/ display_unit \notin ValidUnits(statistic_unit)
           \/ display_unit = statistic_unit
        THEN [none |-> TRUE]
        ELSE [none |-> FALSE, from |-> statistic_unit, to |-> display_unit]

\* _from_normalized_unit, or the value itself when there is no converter
_from_normalized_unit(conv, val) ==
    IF conv.none \/ IsNull(val) THEN val
    ELSE convert(val, conv.from, conv.to)

\* the unit of hass.states.get(statistic_id): state is "NoState" when the
\* entity has no state, else its unit_of_measurement attribute ("None"
\* when it has none)
StateUnit(state, unit) == IF state = "NoState" THEN unit ELSE state

\* _generate_statistics_during_period_stmt, executed
_generate_statistics_during_period_stmt(rows, start_time, end_time, metadata_ids) ==
    OrderRows({r \in rows :
                 /\ r.start_ts >= start_time
                 /\ end_time # NoTime => r.start_ts < end_time
                 /\ metadata_ids # {} => r.metadata_id \in metadata_ids})

\* mutant: the oldest row below start_time
statistics_at_time_oldest(rows, metadata_ids, start_time) ==
    {r \in rows :
       /\ r.metadata_id \in metadata_ids
       /\ r.start_ts < start_time
       /\ \A q \in rows :
            (q.metadata_id = r.metadata_id /\ q.start_ts < start_time)
              => r.start_ts <= q.start_ts}

\* _statistics_at_time: per metadata_id the row with the greatest start_ts
\* below start_time
_statistics_at_time(rows, metadata_ids, start_time) ==
    {r \in rows :
       /\ r.metadata_id \in metadata_ids
       /\ r.start_ts < start_time
       /\ \A q \in rows :
            (q.metadata_id = r.metadata_id /\ q.start_ts < start_time)
              => q.start_ts <= r.start_ts}

\* the column a type is read from
TypeColumn(type) == IF type = "last_reset" THEN "last_reset_ts" ELSE type

\* the row dict _sorted_statistics_to_dict builds from a database row
StatisticsRow(db_state, duration, types, conv) ==
    [k \in {"start", "end"} \cup types |->
        IF k = "start" THEN db_state.start_ts
        ELSE IF k = "end" THEN db_state.start_ts + duration
        ELSE IF k = "last_reset" THEN db_state.last_reset_ts
        ELSE _from_normalized_unit(conv, db_state[TypeColumn(k)])]

SeqOfMid(stats, mid) == SelectSeq(stats, LAMBDA r : r.metadata_id = mid)

\* _sorted_statistics_to_dict; with_conversion is its convert_units, states
\* maps a statistic_id to StateUnit's state argument, start_time is NoTime
\* for None
_sorted_statistics_to_dict(db, stats, statistic_ids, metadata, with_conversion, table, start_time, units, types, states) ==
    LET mids == {stats[i].metadata_id : i \in 1..Len(stats)}
        need_stat_at_start_time ==
            {mid \in mids : /\ start_time # NoTime
                            /\ SeqOfMid(stats, mid)[1].start_ts > start_time}
        tmp == IF need_stat_at_start_time = {} THEN {}
               ELSE _statistics_at_time(db[table], need_stat_at_start_time,
                                        start_time)
        stats_by_meta_id(mid) ==
            OrderRows({r \in tmp : r.metadata_id = mid}) \o SeqOfMid(stats, mid)
        duration == IF table = "long" THEN LongTermDuration
                    ELSE ShortTermDuration
        by_id(m) ==
            LET conv == IF with_conversion
                        THEN _get_statistic_to_display_unit_converter(
                                 m.unit_of_measurement,
                                 StateUnit(states[m.statistic_id],
                                           m.unit_of_measurement),
                                 units)
                        ELSE [none |-> TRUE]
                list == stats_by_meta_id(m.id)
            IN  [i \in 1..Len(list) |->
                    StatisticsRow(list[i], duration, types, conv)]
    IN  [statistic_id \in {m.statistic_id : m \in {x \in metadata : x.id \in mids}}
           |-> by_id(CHOOSE m \in metadata : m.statistic_id = statistic_id)]

\* timedelta(days=1), timedelta(days=7), timedelta(days=31)
PeriodSeconds(period) ==
    IF period \in {"day", "local day"} THEN Day
    ELSE IF period \in {"week", "local week"} THEN 7 * Day
    ELSE 31 * Day

\* dt_util.DEFAULT_TIME_ZONE of the periods "local day", "local week" and
\* "local month": a zone that sets its clocks back one hour at 03:00 on the
\* Sunday that is day FallBackDay after H, H being a local midnight and a
\* Monday (Europe/Berlin on the last Sunday of October)
FallBackDay == 27

\* datetime.fromtimestamp(time, tz).replace(hour=0, ...) counted in days:
\* the local day time lies in
LocalDayOf(time) ==
    IF time < FallBackDay * Day + 3 * LongTermDuration
    THEN time \div Day
    ELSE (time - LongTermDuration) \div Day

\* start_local.astimezone(dt_util.UTC).timestamp(): the midnight that opens
\* local day d
LocalMidnight(d) ==
    IF d <= FallBackDay THEN d * Day ELSE d * Day + LongTermDuration

\* the first day of the month local day d lies in and of the next month
MonthDays(d) ==
    IF d < 31 THEN [first |-> 0, next |-> 31]
    ELSE IF d < 61 THEN [first |-> 31, next |-> 61]
    ELSE [first |-> 61, next |-> 92]

\* _day_start_end_ts, _week_start_end_ts, _month_start_end_ts in
\* DEFAULT_TIME_ZONE: start_local + timedelta(days=...) is the wall clock
\* that many days later
LocalPeriodStartEnd(period, time) ==
    LET d == LocalDayOf(time)
    IN  IF period = "local day"
        THEN [start |-> LocalMidnight(d), end |-> LocalMidnight(d + 1)]
        ELSE IF period = "local week"
        THEN [start |-> LocalMidnight(d - (d % 7)),
              end |-> LocalMidnight(d - (d % 7) + 7)]
        ELSE [start |-> LocalMidnight(MonthDays(d).first),
              end |-> LocalMidnight(MonthDays(d).next)]

\* _day_start_end_ts, _week_start_end_ts, _month_start_end_ts
PeriodStartEnd(period, time) ==
    IF period \in {"local day", "local week", "local month"}
    THEN LocalPeriodStartEnd(period, time)
    ELSE IF period = "day"
    THEN [start |-> time - (time % Day), end |-> time - (time % Day) + Day]
    ELSE IF period = "week"
    THEN [start |-> time - (time % (7 * Day)),
          end |-> time - (time % (7 * Day)) + 7 * Day]
    ELSE IF time < 31 * Day THEN [start |-> 0, end |-> 31 * Day]
    ELSE IF time < 61 * Day THEN [start |-> 31 * Day, end |-> 61 * Day]
    ELSE [start |-> 61 * Day, end |-> 92 * Day]

\* _same_day_ts, _same_week_ts, _same_month_ts: _boundries is the period of
\* time1 when the comparison is made
SamePeriod(period, time1, time2) ==
    /\ PeriodStartEnd(period, time1).start <= time2
    /\ time2 < PeriodStartEnd(period, time1).end

RECURSIVE SeqTotal(_)
SeqTotal(values) ==
    IF values = <<>> THEN R(0) ELSE RAdd(Head(values), SeqTotal(Tail(values)))

RECURSIVE SeqMin(_)
SeqMin(values) ==
    IF Len(values) = 1 THEN values[1]
    ELSE RMin(Head(values), SeqMin(Tail(values)))

RECURSIVE SeqMax(_)
SeqMax(values) ==
    IF Len(values) = 1 THEN values[1]
    ELSE RMax(Head(values), SeqMax(Tail(values)))

\* the row _reduce_statistics emits when prev_stat was the last entry of
\* its period
ReducedRow(period, types, prev_stat, acc) ==
    LET bounds == PeriodStartEnd(period, prev_stat.start)
    IN  [k \in {"start", "end"} \cup types |->
            IF k = "start" THEN bounds.start
            ELSE IF k = "end" THEN bounds.end
            ELSE IF k = "mean"
            THEN IF acc.mean_values # <<>>
                 THEN RDivInt(SeqTotal(acc.mean_values), Len(acc.mean_values))
                 ELSE Null
            ELSE IF k = "min"
            THEN IF acc.min_values # <<>> THEN SeqMin(acc.min_values) ELSE Null
            ELSE IF k = "max"
            THEN IF acc.max_values # <<>> THEN SeqMax(acc.max_values) ELSE Null
            ELSE Get(prev_stat, k)]

\* statistic.get(k) is not None and k is wanted: the value is collected
Collected(values, statistic, k, types) ==
    IF k \in types /\ ~IsNull(Get(statistic, k))
    THEN Append(values, statistic[k]) ELSE values

RECURSIVE ReduceLoop(_, _, _, _, _)
\* the loop of _reduce_statistics over chain(stat_list, (fake_entry,))
ReduceLoop(entries, period, types, prev_stat, acc) ==
    IF entries = <<>> THEN acc.result
    ELSE LET statistic == Head(entries)
             closes == ~SamePeriod(period, prev_stat.start, statistic.start)
             out == IF closes
                    THEN [result |-> Append(acc.result,
                                            ReducedRow(period, types,
                                                       prev_stat, acc)),
                          max_values |-> <<>>, mean_values |-> <<>>,
                          min_values |-> <<>>]
                    ELSE acc
         IN  ReduceLoop(Tail(entries), period, types, statistic,
                        [result |-> out.result,
                         max_values |-> Collected(out.max_values, statistic,
                                                  "max", types),
                         mean_values |-> Collected(out.mean_values, statistic,
                                                   "mean", types),
                         min_values |-> Collected(out.min_values, statistic,
                                                  "min", types)])

\* mutant: the entry that closes a period is not collected
reduce_statistics_drops_first(stats, period, types) ==
    [statistic_id \in DOMAIN stats |->
        ReduceLoop(
            Tail(stats[statistic_id])
              \o << [start |-> stats[statistic_id][Len(stats[statistic_id])].start
                                 + PeriodSeconds(period)] >>,
            period, types, stats[statistic_id][1],
            [result |-> <<>>, max_values |-> <<>>, mean_values |-> <<>>,
             min_values |-> <<>>])]

_reduce_statistics(stats, period, types) ==
    [statistic_id \in DOMAIN stats |->
        ReduceLoop(
            stats[statistic_id]
              \o << [start |-> stats[statistic_id][Len(stats[statistic_id])].start
                                 + PeriodSeconds(period)] >>,
            period, types, stats[statistic_id][1],
            [result |-> <<>>, max_values |-> <<>>, mean_values |-> <<>>,
             min_values |-> <<>>])]

\* _statistics_during_period_with_session once the metadata is fetched: the
\* result and, for day, week and month, the hourly lists it reduces
StatisticsDuringPeriodOf(db, metadata, start_time, end_time, statistic_ids, period, units, types, states) ==
    LET metadata_ids == {m.id : m \in metadata}
        table == IF period # "5minute" THEN "long" ELSE "short"
        stats == _generate_statistics_during_period_stmt(
                     db[table], start_time, end_time, metadata_ids)
    IN  IF metadata = {} \/ stats = <<>>
        THEN [result |-> <<>>, hourly |-> <<>>]
        ELSE CHOOSE out \in
               { [result |-> IF period \in {"day", "week", "month"}
                             THEN _reduce_statistics(dict, period, types)
                             ELSE dict,
                  hourly |-> dict] :
                 dict \in { _sorted_statistics_to_dict(
                                db, stats, statistic_ids, metadata, TRUE,
                                table, start_time, units, types, states) } } : TRUE

\* _statistics_during_period_with_session for a set of statistic_ids
\* (first the mutant that reads every statistic when none is known)
statistics_during_period_unknown_reads_all(db, start_time, end_time, statistic_ids, period, units, types, states) ==
    StatisticsDuringPeriodOf(
        db, IF get_many(db.meta, statistic_ids) = {} THEN db.meta
            ELSE get_many(db.meta, statistic_ids),
        start_time, end_time, statistic_ids, period, units, types, states)
_statistics_during_period_with_session(db, start_time, end_time, statistic_ids, period, units, types, states) ==
    StatisticsDuringPeriodOf(
        db, get_many(db.meta, statistic_ids),
        start_time, end_time, statistic_ids, period, units, types, states)


RECURSIVE Reverse(_)
Reverse(seq) ==
    IF seq = <<>> THEN <<>> ELSE Append(Reverse(Tail(seq)), Head(seq))

\* _get_last_statistics_stmt and _get_last_statistics_short_term_stmt,
\* executed: the number_of_stats newest rows, newest first
_get_last_statistics_stmt(rows, metadata_id, number_of_stats) ==
    LET newest_first == Reverse(OrderRows({r \in rows :
                                             r.metadata_id = metadata_id}))
    IN  SubSeq(newest_first, 1,
               IF Len(newest_first) < number_of_stats THEN Len(newest_first)
               ELSE number_of_stats)

\* _get_last_statistics; with_conversion is its convert_units
_get_last_statistics(db, number_of_stats, statistic_id, with_conversion, table, types, states) ==
    LET metadata == get_many(db.meta, {statistic_id})
    IN  IF metadata = {} THEN <<>>
        ELSE LET stats == _get_last_statistics_stmt(
                              db[table], (CHOOSE m \in metadata : TRUE).id,
                              number_of_stats)
             IN  IF stats = <<>> THEN <<>>
                 ELSE _sorted_statistics_to_dict(
                          db, stats, {statistic_id}, metadata, with_conversion,
                          table, NoTime, <<>>, types, states)

get_last_statistics(db, number_of_stats, statistic_id, with_conversion, types, states) ==
    _get_last_statistics(db, number_of_stats, statistic_id, with_conversion,
                         "long", types, states)

get_last_short_term_statistics(db, number_of_stats, statistic_id, with_conversion, types, states) ==
    _get_last_statistics(db, number_of_stats, statistic_id, with_conversion,
                         "short", types, states)

\* _latest_short_term_statistics_stmt, executed
_latest_short_term_statistics_stmt(rows, metadata_ids) ==
    OrderRows({r \in rows :
                 /\ r.metadata_id \in metadata_ids
                 /\ \A q \in rows : q.metadata_id = r.metadata_id
                                      => q.start_ts <= r.start_ts})

\* get_latest_short_term_statistics called without metadata
get_latest_short_term_statistics(db, statistic_ids, types, states) ==
    LET metadata == get_many(db.meta, statistic_ids)
    IN  IF metadata = {} THEN <<>>
        ELSE LET stats == _latest_short_term_statistics_stmt(
                              db.short, {m.id : m \in metadata})
             IN  IF stats = <<>> THEN <<>>
                 ELSE _sorted_statistics_to_dict(
                          db, stats, statistic_ids, metadata, FALSE,
                          "short", NoTime, <<>>, types, states)

----------------------------------------------------------------------------
(* SpecRead: a database filled by imports and compactions, then read *)

\* hourly rows of sensor.power: the first day, the turn of the first week,
\* the turn of the first month
PowerRow(start, mean, min, max) ==
    [start |-> start, mean |-> mean, min |-> min, max |-> max]

ReadBatches ==
    { [metadata |-> PowerMeta,
       statistics |-> << PowerRow(LongTermDuration, R(10), R(5), R(20)),
                         PowerRow(2 * LongTermDuration, Null, Null, Null),
                         PowerRow(23 * LongTermDuration, R(31), R(1), R(40)),
                         PowerRow(Day, R(50), R(45), R(55)) >>],
      [metadata |-> PowerMeta,
       statistics |-> << PowerRow(7 * Day - LongTermDuration, R(7), R(6), R(8)),
                         PowerRow(7 * Day, R(9), Null, R(9)),
                         PowerRow(31 * Day - LongTermDuration, R(3), R(2), R(4)),
                         PowerRow(31 * Day, R(1), R(1), R(1)) >>],
      [metadata |-> EnergyMeta("kWh"),
       statistics |-> << [start |-> LongTermDuration, last_reset |-> R(0),
                          state |-> R(10), sum |-> R(10)],
                         [start |-> 2 * LongTermDuration, last_reset |-> R(0),
                          state |-> R(20), sum |-> R(20)],
                         [start |-> Day + LongTermDuration,
                          last_reset |-> R(Day), state |-> R(5),
                          sum |-> R(25)],
                         [start |-> 8 * Day, sum |-> R(40)] >>] }

ReadImport ==
    /\ nops < MaxReadSetup
    /\ \E batch \in ReadBatches :
         ImportStatisticsTask_run(batch.metadata, batch.statistics, "long")
    /\ nops' = nops + 1
    /\ UNCHANGED <<queue, job>>

ReadCompile ==
    /\ nops < MaxReadSetup
    /\ \E start \in {LongTermDuration, LongTermDuration + ShortTermDuration} :
         StatisticsTask_run(start, TRUE, FullPeriod(start))
    /\ nops' = nops + 1
    /\ UNCHANGED <<queue, job>>

ReadOps ==
    {"statistics_during_period", "get_last_statistics",
     "get_latest_short_term_statistics", "statistic_during_period"}

\* a read is the last step of a behaviour
Unread == last.op \notin ReadOps

ReadStarts == {LongTermDuration, LongTermDuration + ShortTermDuration, Day}
ReadEnds == {NoTime, 8 * Day}
ReadIds ==
    { {"sensor.power"}, {"sensor.energy", "sensor.power"},
      {"sensor.unknown"}, {"sensor.energy", "sensor.unknown"} }
ReadPeriods == {"5minute", "hour", "day", "week", "month"}
ReadTypes ==
    { {"last_reset", "max", "mean", "min", "state", "sum"},
      {"mean"}, {"state", "sum"} }

\* what the caller asks for and what the live entities report
ReadDisplays ==
    { [units |-> <<>>, state |-> "NoState"],
      [units |-> <<>>, state |-> "Wh"],
      [units |-> <<>>, state |-> "None"],
      [units |-> [energy |-> "Wh"], state |-> "NoState"],
      [units |-> [energy |-> "W"], state |-> "Wh"],
      [units |-> [power |-> "kW"], state |-> "kWh"] }

AllTypes == {"last_reset", "max", "mean", "min", "state", "sum"}

\* the types asked for, with the display they are asked in
ReadAsks ==
    { [display |-> d, types |-> AllTypes] : d \in ReadDisplays }
    \cup { [display |-> [units |-> <<>>, state |-> "NoState"],
            types |-> {"mean"}],
          [display |-> [units |-> [energy |-> "Wh"], state |-> "NoState"],
           types |-> {"state", "sum"}] }

States(state) ==
    [statistic_id \in {"sensor.energy", "sensor.power", "sensor.unknown"} |->
        state]

StatisticsDuringPeriod ==
    /\ Unread
    /\ \E start_time \in ReadStarts, end_time \in ReadEnds :
       \E statistic_ids \in ReadIds, period \in ReadPeriods :
       \E ask \in ReadAsks :
       \E res \in {_statistics_during_period_with_session(
                       Db, start_time, end_time, statistic_ids, period,
                       ask.display.units, ask.types,
                       States(ask.display.state))} :
         last' = [op |-> "statistics_during_period",
                  start_time |-> start_time, end_time |-> end_time,
                  statistic_ids |-> statistic_ids, period |-> period,
                  units |-> ask.display.units, state |-> ask.display.state,
                  types |-> ask.types, result |-> res.result,
                  hourly |-> res.hourly]
    /\ UNCHANGED <<meta, short, long, runs, queue, nops, job>>

GetLastStatistics ==
    /\ Unread
    /\ \E number_of_stats \in 1..2 :
       \E statistic_id \in {"sensor.energy", "sensor.power", "sensor.unknown"} :
       \E with_conversion \in BOOLEAN, table \in {"long", "short"} :
       \E state \in {"NoState", "Wh"}, types \in ReadTypes :
         last' = [op |-> "get_last_statistics",
                  number_of_stats |-> number_of_stats,
                  statistic_ids |-> {statistic_id},
                  convert_units |-> with_conversion, table |-> table,
                  units |-> <<>>, state |-> state, types |-> types,
                  result |-> _get_last_statistics(
                                 Db, number_of_stats, statistic_id,
                                 with_conversion, table, types, States(state))]
    /\ UNCHANGED <<meta, short, long, runs, queue, nops, job>>

GetLatestShortTermStatistics ==
    /\ Unread
    /\ \E statistic_ids \in ReadIds, types \in ReadTypes :
         last' = [op |-> "get_latest_short_term_statistics",
                  statistic_ids |-> statistic_ids, types |-> types,
                  result |-> get_latest_short_term_statistics(
                                 Db, statistic_ids, types, States("NoState"))]
    /\ UNCHANGED <<meta, short, long, runs, queue, nops, job>>

\* statistic_during_period for one statistic over [start_time, end_time)
StatisticDuringPeriod ==
    /\ Unread
    /\ \E statistic_id \in {"sensor.energy", "sensor.power", "sensor.unknown"} :
       \E types \in {{"max", "mean", "min", "change"}, {"change"}} :
         last' = [op |-> "statistic_during_period",
                  statistic_ids |-> {statistic_id}, types |-> types,
                  result |-> statistic_during_period(
                                 Db, 8 * Day, 0, Day, statistic_id, types,
                                 "None", "None")]
    /\ UNCHANGED <<meta, short, long, runs, queue, nops, job>>

NextRead ==
    \/ ReadImport
    \/ ReadCompile
    \/ StatisticsDuringPeriod
    \/ GetLastStatistics
    \/ GetLatestShortTermStatistics
    \/ StatisticDuringPeriod

SpecRead == Init /\ [][NextRead]_vars


(***************************************************************************)
(* Reduction to days, weeks and months                                     *)
(***************************************************************************)
Reduced ==
    /\ last.op = "statistics_during_period"
    /\ last.period \in {"day", "week", "month"}

\* the calendar: days and weeks from H, the months that start at H, H + 31
\* days and H + 61 days
Buckets(period) ==
    IF period = "day"
    THEN {[start |-> k * 86400, end |-> (k + 1) * 86400] : k \in 0..91}
    ELSE IF period = "week"
    THEN {[start |-> k * 604800, end |-> (k + 1) * 604800] : k \in 0..13}
    ELSE {[start |-> 0, end |-> 2678400],
          [start |-> 2678400, end |-> 5270400],
          [start |-> 5270400, end |-> 7948800]}

\* the positions of the hourly rows of a list that lie in a bucket
InBucket(list, b) ==
    {i \in 1..Len(list) : b.start <= list[i].start /\ list[i].start < b.end}

\* the non-null values of a column at the positions idx
Present(list, idx, k) == {i \in idx : ~IsNull(list[i][k])}

RECURSIVE TotalAt(_, _, _)
TotalAt(list, idx, k) ==
    IF idx = {} THEN [n |-> 0, d |-> 1]
    ELSE LET i == CHOOSE j \in idx : TRUE
         IN  RAdd(list[i][k], TotalAt(list, idx \ {i}, k))

\* row is the reduction of the hourly rows of list that lie in bucket b
ReducesBucket(row, list, b, types) ==
    LET idx == InBucket(list, b)
        lastpos == CHOOSE i \in idx : \A j \in idx : j <= i
    IN  /\ idx # {}
        /\ row.start = b.start /\ row.end = b.end
        /\ "mean" \in types =>
             IF Present(list, idx, "mean") = {} THEN row.mean = Null
             ELSE RMulInt(row.mean, Cardinality(Present(list, idx, "mean")))
                    = TotalAt(list, Present(list, idx, "mean"), "mean")
        /\ "min" \in types =>
             IF Present(list, idx, "min") = {} THEN row.min = Null
             ELSE /\ \E i \in Present(list, idx, "min") : row.min = list[i].min
                  /\ \A i \in Present(list, idx, "min") :
                       RLeq(row.min, list[i].min)
        /\ "max" \in types =>
             IF Present(list, idx, "max") = {} THEN row.max = Null
             ELSE /\ \E i \in Present(list, idx, "max") : row.max = list[i].max
                  /\ \A i \in Present(list, idx, "max") :
                       RLeq(list[i].max, row.max)
        /\ \A k \in types \cap {"last_reset", "state", "sum"} :
             row[k] = list[lastpos][k]

\* C24: in day, week and month reduction every bucket that holds an hourly
\* row gives one output row, whose mean is the arithmetic mean of the
\* non-null means of the hourly rows of the bucket, whose min and max are
\* the minimum and maximum of their non-null mins and maxes (null when
\* there is none), and whose last_reset, state and sum are those of the
\* last hourly row of the bucket
C24_ReducedBuckets ==
    Reduced =>
        /\ DOMAIN last.result = DOMAIN last.hourly
        /\ \A id \in DOMAIN last.result :
             LET out == last.result[id]
                 list == last.hourly[id]
             IN  /\ \A i \in 1..Len(out) :
                      \E b \in Buckets(last.period) :
                        ReducesBucket(out[i], list, b, last.types)
                 /\ \A i \in 1..Len(list) :
                      Cardinality({j \in 1..Len(out) :
                                     /\ out[j].start <= list[i].start
                                     /\ list[i].start < out[j].end}) = 1

\* a day of sensor.power with three hourly rows, one of them without mean,
\* is reduced next to a day of sensor.energy with two rows
C24_Witness ==
    /\ Reduced
    /\ last.period = "day"
    /\ last.types = {"last_reset", "max", "mean", "min", "state", "sum"}
    /\ \E id \in DOMAIN last.hourly :
         \E b \in Buckets("day") :
           /\ Cardinality(InBucket(last.hourly[id], b)) = 3
           /\ Cardinality(Present(last.hourly[id],
                                  InBucket(last.hourly[id], b), "mean")) = 2
    /\ \E id \in DOMAIN last.result :
         \E i \in 1..Len(last.result[id]) :
           ~IsNull(last.result[id][i].sum)


(***************************************************************************)
(* The row before start                                                    *)
(***************************************************************************)
ReadPeriod == last.op = "statistics_during_period"

\* the table statistics_during_period reads for the period
ReadTable == IF last.period = "5minute" THEN short ELSE long

\* the starts of the rows of a statistic: in [start_time, end_time), and
\* before start_time
StartsInRange(m) ==
    {r.start_ts : r \in {q \in ReadTable :
        /\ q.metadata_id = m.id
        /\ q.start_ts >= last.start_time
        /\ last.end_time # -1 => q.start_ts < last.end_time}}

StartsBefore(m) ==
    {r.start_ts : r \in {q \in ReadTable :
        q.metadata_id = m.id /\ q.start_ts < last.start_time}}

Latest(starts) == CHOOSE t \in starts : \A u \in starts : u <= t

\* the lists read from the table, before any reduction
ReadLists == last.hourly

StrictlyAscending(list) ==
    \A i \in 1..(Len(list) - 1) : list[i].start < list[i + 1].start

ResultAscending ==
    \A id \in DOMAIN last.result : StrictlyAscending(last.result[id])

\* C25 (as stated): for every requested statistic without a row at start
\* that has a row before start, the most recent such row opens the
\* statistic's list, and the returned lists ascend in start
C25_RowBeforeStartPrepended ==
    ReadPeriod =>
        /\ ResultAscending
        /\ \A m \in meta :
             (/\ m.statistic_id \in last.statistic_ids
              /\ last.start_time \notin StartsInRange(m)
              /\ StartsBefore(m) # {})
             => /\ m.statistic_id \in DOMAIN ReadLists
                /\ ReadLists[m.statistic_id][1].start = Latest(StartsBefore(m))

\* C25 (amended): a requested statistic with no row in [start, end) is
\* absent from the result; one with rows in the range has them listed in
\* ascending start, opened by the most recent row before start when it has
\* such a row and none at start
C25_RowBeforeStartPrependedToRowsInRange ==
    ReadPeriod =>
        /\ ResultAscending
        /\ DOMAIN last.result = DOMAIN ReadLists
        /\ \A id \in DOMAIN ReadLists : \E m \in meta : m.statistic_id = id
        /\ \A m \in meta :
             IF m.statistic_id \notin last.statistic_ids \/ StartsInRange(m) = {}
             THEN m.statistic_id \notin DOMAIN ReadLists
             ELSE LET list == ReadLists[m.statistic_id]
                      opened == /\ last.start_time \notin StartsInRange(m)
                                /\ StartsBefore(m) # {}
                  IN  /\ m.statistic_id \in DOMAIN ReadLists
                      /\ StrictlyAscending(list)
                      /\ {list[i].start : i \in 1..Len(list)} =
                           StartsInRange(m) \cup
                             (IF opened THEN {Latest(StartsBefore(m))} ELSE {})

\* a list opened by the row before start, the statistic having several
\* rows before start
C25_Witness ==
    /\ ReadPeriod
    /\ \E m \in meta :
         /\ m.statistic_id \in DOMAIN ReadLists
         /\ Cardinality(StartsBefore(m)) > 1
         /\ ReadLists[m.statistic_id][1].start < last.start_time
         /\ Len(ReadLists[m.statistic_id]) > 2


(***************************************************************************)
(* Units on read                                                           *)
(***************************************************************************)
\* a read that converts and returns one row per stored row
ReadConverted ==
    \/ last.op = "statistics_during_period" /\ last.period \in {"5minute", "hour"}
    \/ last.op = "get_last_statistics" /\ last.convert_units

ConvertedTable ==
    IF last.op = "get_last_statistics"
    THEN (IF last.table = "short" THEN short ELSE long)
    ELSE ReadTable

\* the units of the two unit classes of the model
ClassOf(unit) ==
    IF unit \in {"Wh", "kWh"} THEN "energy"
    ELSE IF unit \in {"W", "kW"} THEN "power" ELSE "none"

ClassUnits(class) ==
    IF class = "energy" THEN {"Wh", "kWh"}
    ELSE IF class = "power" THEN {"W", "kW"} ELSE {}

\* the unit the values of a statistic stored in unit are to be shown in:
\* units[unit_class] when requested, else the unit of the live entity
ChosenUnit(unit) ==
    IF ClassOf(unit) \in DOMAIN last.units THEN last.units[ClassOf(unit)]
    ELSE IF last.state = "NoState" THEN unit ELSE last.state

\* shown is stored, converted from unit to the chosen unit
Shown(shown, stored, unit) ==
    IF stored = Null THEN shown = Null
    ELSE IF ChosenUnit(unit) \notin ClassUnits(ClassOf(unit))
            \/ ChosenUnit(unit) = unit
    THEN shown = stored
    ELSE IF unit \in {"kWh", "kW"}
    THEN shown = RMulInt(stored, 1000)
    ELSE RMulInt(shown, 1000) = stored

\* C26: on a read that converts, every value of a statistic whose stored
\* unit belongs to a unit class is shown in units[unit_class] when the
\* caller requested a unit for the class, else in the unit of the live
\* entity; it is the stored value when the chosen unit is not a unit of
\* the class or is the stored unit, and null when the stored value is null
C26_ValuesShownInChosenUnit ==
    ReadConverted =>
        \A m \in meta :
          m.statistic_id \in DOMAIN last.result =>
            \A i \in 1..Len(last.result[m.statistic_id]) :
              LET row == last.result[m.statistic_id][i]
                  stored == CHOOSE r \in ConvertedTable :
                              r.metadata_id = m.id /\ r.start_ts = row.start
              IN  /\ \E r \in ConvertedTable :
                       r.metadata_id = m.id /\ r.start_ts = row.start
                  /\ \A k \in last.types \ {"last_reset"} :
                       Shown(row[k], stored[k], m.unit_of_measurement)

\* sensor.power, stored in W, is read in the kW the caller requested while
\* the live entity reports a unit of another class, and a null value is
\* among the values read
C26_Witness ==
    /\ ReadConverted
    /\ "power" \in DOMAIN last.units
    /\ "sensor.power" \in DOMAIN last.result
    /\ \E i \in 1..Len(last.result["sensor.power"]) :
         last.result["sensor.power"][i].mean = [n |-> 1, d |-> 100]
    /\ \E i \in 1..Len(last.result["sensor.power"]) :
         last.result["sensor.power"][i].mean = Null


(***************************************************************************)
(* Reading a statistic that is not known                                   *)
(***************************************************************************)
Known(id) == \E m \in meta : m.statistic_id = id

\* C27: statistic_during_period, statistics_during_period,
\* get_last_statistics, get_last_short_term_statistics and
\* get_latest_short_term_statistics write nothing, return nothing for a
\* statistic_id without metadata, and return the empty result when no
\* requested statistic_id has metadata
C27_UnknownStatisticReadsEmpty ==
    [][(last.op \notin ReadOps /\ last'.op \in ReadOps) =>
         /\ UNCHANGED tables
         /\ \A id \in last'.statistic_ids :
              ~Known(id) => id \notin DOMAIN last'.result
         /\ (\A id \in last'.statistic_ids : ~Known(id))
              => last'.result = <<>>]_vars

\* a read of a known and an unknown statistic from a database with rows
C27_Witness ==
    /\ last.op \in ReadOps
    /\ long # {}
    /\ \E id \in last.statistic_ids : ~Known(id)
    /\ \E id \in last.statistic_ids : id \in DOMAIN last.result


(***************************************************************************)
(* Writes to a statistic that is not known                                 *)
(***************************************************************************)
WriteOps == {"adjust_statistics", "change_statistics_unit"}

Wrote == nops' = nops + 1 /\ last'.op \in WriteOps

\* the statistic the write is aimed at has no metadata when the write starts
UnknownTarget == ~\E m \in meta : m.statistic_id = last'.statistic_id

\* the statistic is known but the write cannot be applied to it: the
\* adjustment is in a unit of another class, or the statistic is not the
\* recorder's or not stored in old_unit
Inapplicable ==
    \E m \in meta :
      /\ m.statistic_id = last'.statistic_id
      /\ IF last'.op = "adjust_statistics"
         THEN /\ m.unit_of_measurement \in {"Wh", "kWh", "W", "kW"}
              /\ (m.unit_of_measurement \in {"Wh", "kWh"})
                   # (last'.adjustment_unit \in {"Wh", "kWh"})
         ELSE m.source # "recorder" \/ m.unit_of_measurement # last'.old_unit

\* C28 (as stated): a write aimed at a statistic_id that does not exist, or
\* that cannot be applied, reports an error to its caller
C28_UnknownTargetReported ==
    [][(Wrote /\ (UnknownTarget \/ Inapplicable))
         => last'.returned = "HomeAssistantError"]_vars

\* C28 (amended): adjust_statistics and change_statistics_unit aimed at a
\* statistic_id without metadata write nothing and report no error
\* (adjust_statistics returns True, change_statistics_unit logs a warning
\* and returns); the same holds of change_statistics_unit when the
\* statistic is not the recorder's or not stored in old_unit; only an
\* adjustment in a unit of another class raises, and writes nothing
C28_UnknownTargetSilentlySkipped ==
    [][(Wrote /\ (UnknownTarget \/ Inapplicable)) =>
         /\ UNCHANGED tables
         /\ IF last'.op = "change_statistics_unit"
            THEN last'.returned = "None" /\ last'.warning
            ELSE IF UnknownTarget THEN last'.returned = "True"
            ELSE last'.returned = "HomeAssistantError"]_vars

\* an adjustment aimed at a statistic without metadata, in a database that
\* holds rows of another statistic, has returned True
C28_Witness ==
    /\ last.op = "adjust_statistics"
    /\ last.returned = "True"
    /\ ~\E m \in meta : m.statistic_id = last.statistic_id
    /\ long # {}


(***************************************************************************)
(* Schema validation (validate_db_schema)                                  *)
(***************************************************************************)
MaxValidateSetup == 2

\* start_time of the probe rows: 6 October of the next year, later than
\* every other timestamp of the model
FutureStart == 400 * Day

\* precise_time = start_time + 1 microsecond.  The clock of the model counts
\* seconds; the microsecond is carried as one unit above FutureStart, a
\* timestamp nothing else uses
precise_time == FutureStart + 1

\* precise_number, a number a 32-bit float cannot hold (1 + 10^-9 here, for
\* 1.000000000000001, to stay within 32-bit integers)
precise_number == [n |-> 1000000001, d |-> 1000000000]

ProbeId == "recorder.db_test"

\* the probe descriptor (its name is not a column of the model)
ProbeMetadata ==
    [statistic_id |-> ProbeId, source |-> DOMAIN_RECORDER,
     unit_of_measurement |-> "None", has_mean |-> TRUE, has_sum |-> TRUE]

\* the probe row
ProbeStatistics ==
    [last_reset |-> R(precise_time),
     max |-> precise_number,
     mean |-> precise_number,
     min |-> precise_number,
     start |-> precise_time,
     state |-> precise_number,
     sum |-> precise_number]

\* a float column: DOUBLE PRECISION keeps the value, a 32-bit float keeps
\* 24 significant bits and rounds precise_number to 1
FloatColumn(v, double) ==
    IF double \/ v = Null \/ v.d <= 16777216 THEN v ELSE R(v.n \div v.d)

\* a timestamp column: without sub-second precision the microsecond of
\* precise_time is dropped
TimeColumn(t, micro) == IF ~micro /\ t = precise_time THEN FutureStart ELSE t

\* the probe row as the columns of this schema store it
AsStored(statistic, schema) ==
    [last_reset |-> R(TimeColumn(statistic.last_reset.n, schema.micro)),
     max |-> FloatColumn(statistic.max, schema.double),
     mean |-> FloatColumn(statistic.mean, schema.double),
     min |-> FloatColumn(statistic.min, schema.double),
     start |-> TimeColumn(statistic.start, schema.micro),
     state |-> FloatColumn(statistic.state, schema.double),
     sum |-> FloatColumn(statistic.sum, schema.double)]

\* statistics_meta_manager.delete(session, statistic_ids)
delete(metaTable, statistic_ids) ==
    {m \in metaTable : m.statistic_id \notin statistic_ids}

\* session_scope(read_only=True): nothing is committed, and closing the
\* session rolls back what it wrote; before is the database the session
\* started from
session_scope_read_only(before, session) == before

\* check_columns: the flag when a stored column differs from the expected
check_columns(stored, expected, columns, table_name, supports) ==
    IF \E column \in columns : stored[column] # expected[column]
    THEN {<<table_name, supports>>} ELSE {}

TableName(table) ==
    IF table = "long" THEN "statistics" ELSE "statistics_short_term"

\* _validate_db_schema_utf8.  schema.utf8mb4 tells whether statistics_meta
\* holds 4-byte UTF-8; fault <<"utf8", "meta">> is an OperationalError other than 1366
\* (or any other exception) raised by the insert.  session is the database
\* as the session saw it when the scope was left
_validate_db_schema_utf8(db, dialect, schema, fault) ==
    IF dialect # "mysql"
    THEN [db |-> db, session |-> db, schema_errors |-> {}, raised |-> FALSE]
    ELSE LET old_metadata_dict == get_many(db.meta, {ProbeId})
             added == [db EXCEPT !.meta = update_or_add(
                                   db.meta, ProbeMetadata,
                                   old_metadata_dict).meta]
             deleted == [added EXCEPT !.meta = delete(added.meta, {ProbeId})]
         IN  IF fault = <<"utf8", "meta">>
             THEN [db |-> session_scope_read_only(db, added),
                   session |-> added,
                   schema_errors |-> {}, raised |-> TRUE]
             ELSE IF ~schema.utf8mb4
             THEN [db |-> session_scope_read_only(db, db),
                   session |-> db,
                   schema_errors |-> {<<"statistics_meta", "4-byte UTF-8">>},
                   raised |-> FALSE]
             ELSE [db |-> session_scope_read_only(db, deleted),
                   session |-> deleted,
                   schema_errors |-> {}, raised |-> FALSE]

\* the comparison of the row read back with the probe row
ValidateCompare(acc, imported, stored_statistics, table) ==
    IF ProbeId \notin DOMAIN stored_statistics
    THEN [acc EXCEPT !.session = imported]
    ELSE LET stored_statistic == stored_statistics[ProbeId]
             last_stored_statistic == stored_statistic[Len(stored_statistic)]
         IN  [acc EXCEPT
                !.session = imported,
                !.schema_errors = @
                  \cup check_columns(
                         last_stored_statistic, ProbeStatistics,
                         {"max", "mean", "min", "state", "sum"},
                         TableName(table), "double precision")
                  \cup check_columns(
                         last_stored_statistic,
                         [last_reset |-> datetime_to_timestamp_or_none(
                                             ProbeStatistics.last_reset),
                          start |-> ProbeStatistics.start],
                         {"start", "last_reset"},
                         TableName(table), "us precision")]

\* the probe row is read back from the table it was imported into
ValidateRead(acc, imported, table, fault) ==
    IF fault \in {<<"import", table>>, <<"read", table>>}
    THEN [acc EXCEPT !.session = imported, !.raised = TRUE]
    ELSE CHOOSE out \in
           { ValidateCompare(acc, imported, stored_statistics, table) :
             stored_statistics \in
               { _statistics_during_period_with_session(
                     imported, FutureStart, NoTime, {ProbeId},
                     IF table = "long" THEN "hour" ELSE "5minute",
                     <<>>, AllTypes,
                     [statistic_id \in {ProbeId} |-> "NoState"]).result } } : TRUE

\* one turn of the loop over (Statistics, StatisticsShortTerm): the probe
\* row is imported into the table, read back and compared
ValidateTable(acc, table, schema, fault) ==
    IF acc.raised THEN acc
    ELSE CHOOSE out \in
           { ValidateRead(acc, imported, table, fault) :
             imported \in
               { _import_statistics_with_session(
                     acc.session, ProbeMetadata,
                     <<AsStored(ProbeStatistics, schema)>>, table) } } : TRUE

\* the statements inside the scope of _validate_db_schema: the loop over
\* the tables, then the delete of the probe descriptor
ProbeTables(db, schema, fault) ==
    CHOOSE out \in
      { IF probed.raised THEN probed
        ELSE IF fault = <<"delete", "meta">>
        THEN [probed EXCEPT !.raised = TRUE]
        ELSE [probed EXCEPT !.session.meta = delete(@, {ProbeId})] :
        probed \in
          { ValidateTable(long_probed, "short", schema, fault) :
            long_probed \in
              { ValidateTable([session |-> db, schema_errors |-> {},
                               raised |-> FALSE],
                              "long", schema, fault) } } } : TRUE

\* mutant: the probes run in a session that commits when the scope is left
validate_db_schema_precision_committing(db, dialect, schema, fault) ==
    IF dialect \notin {"mysql", "postgresql"}
    THEN [db |-> db, session |-> db, schema_errors |-> {}, raised |-> FALSE]
    ELSE CHOOSE out \in
           { [db |-> IF done.raised THEN db ELSE session_scope(done.session),
              session |-> done.session,
              schema_errors |-> done.schema_errors,
              raised |-> done.raised] :
             done \in {ProbeTables(db, schema, fault)} } : TRUE

\* _validate_db_schema: the precision probes.  fault names the statement
\* that raises, if one does
_validate_db_schema(db, dialect, schema, fault) ==
    IF dialect \notin {"mysql", "postgresql"}
    THEN [db |-> db, session |-> db, schema_errors |-> {}, raised |-> FALSE]
    ELSE CHOOSE out \in
           { [db |-> session_scope_read_only(db, done.session),
              session |-> done.session,
              schema_errors |-> done.schema_errors,
              raised |-> done.raised] :
             done \in {ProbeTables(db, schema, fault)} } : TRUE

\* the outcome of validate_db_schema from those of its two probes
ValidateOutcome(db, utf8, precision) ==
    [db |-> precision.db,
     schema_errors |-> utf8.schema_errors \cup precision.schema_errors,
     raised |-> utf8.raised \/ precision.raised,
     probed |-> utf8.session # db \/ precision.session # utf8.db]

\* validate_db_schema: the utf8 probe, then the precision probes
validate_db_schema(db, dialect, schema, fault) ==
    CHOOSE out \in
      UNION { { ValidateOutcome(db, utf8, precision) :
                precision \in
                  {_validate_db_schema(utf8.db, dialect, schema, fault)} } :
              utf8 \in {_validate_db_schema_utf8(db, dialect, schema, fault)} } : TRUE

----------------------------------------------------------------------------
(* SpecValidate: a database with rows, then the startup validation *)

Dialects == {"sqlite", "mysql", "postgresql"}

Schemas == [utf8mb4 : BOOLEAN, double : BOOLEAN, micro : BOOLEAN]

Faults ==
    {<<"none", "none">>, <<"utf8", "meta">>,
     <<"import", "long">>, <<"read", "long">>,
     <<"import", "short">>, <<"read", "short">>, <<"delete", "meta">>}

\* rows the database holds at startup; the last two are a probe descriptor
\* and probe rows an earlier run left behind
ValidateBatches ==
    { [metadata |-> EnergyMeta("kWh"), table |-> "long",
       statistics |-> << [start |-> 0, sum |-> R(100)],
                         [start |-> LongTermDuration, sum |-> R(150)] >>],
      [metadata |-> ProbeMetadata, table |-> "long",
       statistics |-> << [start |-> FutureStart, sum |-> R(1)] >>],
      [metadata |-> ProbeMetadata, table |-> "short",
       statistics |-> << ProbeStatistics >>] }

ValidateImport ==
    /\ nops < MaxValidateSetup
    /\ last.op # "validate_db_schema"
    /\ \E batch \in ValidateBatches :
         ImportStatisticsTask_run(batch.metadata, batch.statistics, batch.table)
    /\ nops' = nops + 1
    /\ UNCHANGED <<queue, job>>

ValidateCompile ==
    /\ nops < MaxValidateSetup
    /\ last.op # "validate_db_schema"
    /\ \E start \in {LongTermDuration - ShortTermDuration, LongTermDuration} :
         StatisticsTask_run(start, TRUE, FullPeriod(start))
    /\ nops' = nops + 1
    /\ UNCHANGED <<queue, job>>

ValidateDbSchema ==
    /\ last.op # "validate_db_schema"
    /\ \E dialect \in Dialects, schema \in Schemas, fault \in Faults :
       \E out \in {validate_db_schema(Db, dialect, schema, fault)} :
         /\ meta' = out.db.meta
         /\ short' = out.db.short
         /\ long' = out.db.long
         /\ runs' = out.db.runs
         /\ last' = [op |-> "validate_db_schema",
                     dialect |-> dialect,
                     schema |-> schema,
                     fault |-> fault,
                     schema_errors |-> out.schema_errors,
                     raised |-> out.raised,
                     probed |-> out.probed]
    /\ UNCHANGED <<queue, nops, job>>

NextValidate ==
    \/ ValidateImport
    \/ ValidateCompile
    \/ ValidateDbSchema

SpecValidate == Init /\ [][NextValidate]_vars

Validated == last.op # "validate_db_schema" /\ last'.op = "validate_db_schema"

\* C29: validate_db_schema leaves statistics_meta, statistics,
\* statistics_short_term and statistics_runs exactly as they were before
\* the call, whether the probes succeed, flag a schema error or raise: the
\* probe descriptor and the probe rows are never committed
C29_ValidationLeavesTablesUnchanged ==
    [][Validated => UNCHANGED tables]_vars

\* a validation on a database with rows wrote its probes in the session and
\* flagged a schema error
C29_Witness ==
    /\ last.op = "validate_db_schema"
    /\ last.probed
    /\ last.schema_errors # {}
    /\ ~last.raised
    /\ long # {} /\ short # {} /\ runs # {}

\* a validation whose probe raised after it had written rows
C29_WitnessRaised ==
    /\ last.op = "validate_db_schema"
    /\ last.probed
    /\ last.raised
    /\ long # {}


(***************************************************************************)
(* The sub-ranges of statistic_during_period                               *)
(***************************************************************************)
\* the sub-periods the last query computed (a query changes no table)
QuerySubPeriods ==
    LET m == CHOOSE x \in meta : x.statistic_id = last.statistic_id
    IN  SubPeriods(last.start_time, last.end_time, last.now,
                   _first_statistic(Db, "long", m.id),
                   IF ~valid_statistic_id(last.statistic_id)
                   THEN _first_statistic(Db, "short", m.id)
                   ELSE NoTime)

\* the starts of the 5-minute periods up to the clock of the query
PeriodStarts == {k * ShortTermDuration : k \in 0..(last.now \div ShortTermDuration)}

\* the 5-minute periods of [from, to); none when from is None, open-ended
\* when to is None
PeriodsIn(from, to) ==
    IF from = NoTime THEN {}
    ELSE {t \in PeriodStarts : from <= t /\ (to = NoTime \/ t < to)}

HeadPeriods ==
    PeriodsIn(QuerySubPeriods.head_start_time, QuerySubPeriods.head_end_time)

MainPeriods ==
    PeriodsIn(QuerySubPeriods.main_start_time, QuerySubPeriods.main_end_time)

TailPeriods ==
    PeriodsIn(QuerySubPeriods.tail_start_time, QuerySubPeriods.tail_end_time)

\* C30: for 5-minute-aligned start < end <= now the head, main and tail
\* sub-ranges of statistic_during_period are pairwise disjoint and together
\* cover [start, end): every short-term row of the range lies in a queried
\* short-term sub-range or in an hour covered by main; ranges shorter than
\* one hour that end on an hour boundary included
C30_SubRangesPartition ==
    /\ last.op = "statistic_during_period"
    /\ last.start_time # NoTime
    /\ last.end_time # NoTime
    /\ last.end_time <= last.now
    => /\ HeadPeriods \cap MainPeriods = {}
       /\ HeadPeriods \cap TailPeriods = {}
       /\ MainPeriods \cap TailPeriods = {}
       /\ \A r \in RowsOf(short, last.statistic_id) :
            (last.start_time <= r.start_ts /\ r.start_ts < last.end_time)
               => r.start_ts \in HeadPeriods \cup MainPeriods \cup TailPeriods


(***************************************************************************)
(* The starts the import API hands to the import task                      *)
(***************************************************************************)
\* C31: every start that _async_import_statistics hands to the import task
\* is on the hour in UTC (minute, second and microsecond zero after the
\* conversion to UTC), whatever the UTC offset of the submitted timestamp,
\* offsets that are not a whole number of hours included
C31_HandedStartsHourAlignedInUtc ==
    \A i \in DOMAIN queue :
      queue[i].type = "ImportStatisticsTask" =>
        \A j \in DOMAIN queue[i].statistics :
          /\ Minute(queue[i].statistics[j].start) = 0
          /\ Second(queue[i].statistics[j].start) = 0


(***************************************************************************)
(* SpecSubmit: write tasks for one statistic are queued and run by the     *)
(* recorder thread; a job that fails with a retryable error reports not    *)
(* finished and its task is queued again                                   *)
(***************************************************************************)
\* write tasks queued by the callers
MaxWrites == 2

WriteTasks ==
    { ImportStatisticsTask(GridMeta,
                           << [start |-> 0, sum |-> R(100)],
                              [start |-> LongTermDuration, sum |-> R(150)] >>,
                           "long"),
      ImportStatisticsTask(GridMeta,
                           << [start |-> LongTermDuration, sum |-> R(200)] >>,
                           "long"),
      AdjustStatisticsTask("grid:energy", LongTermDuration, R(5), "kWh") }

\* instance.queue_task(task): job.order lists the tasks as submitted
SubmitWrite ==
    /\ job.pc = "worker"
    /\ Len(job.order) < MaxWrites
    /\ \E task \in WriteTasks :
         /\ \A i \in DOMAIN job.order : job.order[i] # task
         /\ queue' = Append(queue, task)
         /\ job' = [job EXCEPT !.order = Append(@, task)]
    /\ UNCHANGED <<tables, nops, last>>

InitSubmit ==
    /\ meta = {}
    /\ short = {}
    /\ long = {}
    /\ runs = {}
    /\ queue = <<>>
    /\ nops = 0
    /\ last = [op |-> "init"]
    /\ job = [pc |-> "worker", order |-> <<>>,
              attempts |-> [t \in WriteTasks |-> 0]]

NextSubmit ==
    \/ SubmitWrite
    \/ RunImportStatisticsTask
    \/ RunAdjustStatisticsTask

SpecSubmit == InitSubmit /\ [][NextSubmit]_vars

\* the place of a task in the order of submission
Submitted(task) == CHOOSE i \in DOMAIN job.order : job.order[i] = task

\* the recorder thread ran the job of the task at the head of the queue to
\* its end
TookEffect == nops' = nops + 1 /\ "failed" \notin DOMAIN last'

\* C32: write tasks submitted for the same statistic take effect on the
\* tables in the order they were submitted, also when the job of the first
\* reports not finished and the task is queued again: no task takes effect
\* while a task submitted before it is still waiting in the queue
C32_WritesTakeEffectInSubmissionOrder ==
    [][TookEffect =>
         \A i \in 2..Len(queue) :
           Submitted(Head(queue)) < Submitted(queue[i])]_vars


(***************************************************************************)
(* The events of a compaction                                              *)
(***************************************************************************)
\* the events a compaction of start with fire_events set emits
EventsOf(start) ==
    {EVENT_RECORDER_5MIN_STATISTICS_GENERATED}
    \cup (IF Minute(start) = 55
          THEN {EVENT_RECORDER_HOURLY_STATISTICS_GENERATED} ELSE {})

\* C33: the 5-minute-generated event, and on :55 the hourly-generated
\* event, are emitted only by a compaction that is not skipped by its
\* RunMarker, has fire_events set and whose transaction commits: when the
\* transaction is rolled back no event has been emitted for the period
C33_EventsOnlyWhenCommitted ==
    [][Ran("compile_statistics") =>
         /\ last'.events \subseteq EventsOf(last'.start)
         /\ last'.events # {} =>
              /\ ~last'.skipped
              /\ last'.fire_events
              /\ last'.committed]_vars

\* the same without the commit: events come only from a compaction that is
\* not skipped, has fire_events set and ran its body to the end
EventsOnlyWhenCompiled ==
    [][Ran("compile_statistics") =>
         /\ last'.events \subseteq EventsOf(last'.start)
         /\ last'.events # {} =>
              ~last'.skipped /\ last'.fire_events /\ ~last'.raised]_vars

\* during catch-up only the last period before last_period fires events
CatchUpFiresOnlyLastPeriod ==
    job.pc \in {"loop", "caught"} =>
      LET fired == IF job.pc = "loop" THEN job.acc.fired ELSE job.fired
      IN  \A i \in DOMAIN fired :
            fired[i] + ShortTermDuration >= job.last_period


(***************************************************************************)
(* RunMarkers and the rows of their compaction                             *)
(***************************************************************************)
\* the starts of the RunMarkers a step commits
NewRuns == {m.start : m \in runs'} \ {m.start : m \in runs}

\* a step that commits an import writes no RunMarker and is no compaction
ImportStep == nops' = nops + 1 /\ last'.op = "import_statistics"

\* the committed rows of statistic_id that start at start, in a table
CommittedAt(before, after, statistic_id, start) ==
    {r \in after \ before :
       /\ r.start_ts = start
       /\ \E m \in meta' : m.id = r.metadata_id /\ m.statistic_id = statistic_id}

\* C34: a RunMarker(start) is committed only together with the short-term
\* rows the compaction of start produced and, for start.minute == 55, the
\* long-term rows of its hour, and the rows of a compaction are committed
\* only together with its RunMarker: every transaction commits both or
\* neither
C34_MarkerCommittedWithItsRows ==
    [][~ImportStep =>
         /\ \A r \in short' \ short : r.start_ts \in NewRuns
         /\ \A r \in long' \ long :
              r.start_ts + LongTermDuration - ShortTermDuration \in NewRuns
         /\ \A start \in NewRuns :
              /\ \A i \in DOMAIN WorkerPlatform(start) :
                   CommittedAt(short, short',
                               WorkerPlatform(start)[i].meta.statistic_id,
                               start) # {}
              /\ Minute(start) = 55 =>
                   \A r \in short' :
                     (/\ r.start_ts >= ReplaceMinute0(start)
                      /\ r.start_ts < ReplaceMinute0(start) + LongTermDuration)
                       => \E q \in long' \ long :
                            /\ q.metadata_id = r.metadata_id
                            /\ q.start_ts = ReplaceMinute0(start)]_vars

\* a catch-up committed in its loop, compiled the :55 period of an hour
\* with its long-term row, and ended without an error
C34_Witness ==
    /\ job.pc = "caught"
    /\ ~job.raised
    /\ Len(job.commits) >= 1
    /\ \E m \in runs :
         /\ m.start >= job.first
         /\ Minute(m.start) = 55
         /\ \E q \in long : q.start_ts = ReplaceMinute0(m.start)
         /\ \E r \in short : r.start_ts = m.start

\* a catch-up that committed periods and then lost the pending ones to a
\* unique-constraint violation
C34_WitnessRolledBack ==
    /\ job.pc = "caught"
    /\ job.raised
    /\ Len(job.commits) >= 1
    /\ Len(job.compiled) > Cardinality(runs)


\* the same for compile_statistics with platforms that report any rows,
\* duplicates included: the transaction of a period commits its RunMarker,
\* one short-term row per reported row and the rows of the rollup, or
\* nothing at all
CompactionCommitsAllOrNothing ==
    [][Ran("compile_statistics") =>
         IF runs' # runs
         THEN /\ NewRuns = {last'.start}
              /\ Cardinality(short' \ short) = last'.nstats
              /\ last'.hourly => long' \ long = last'.hourly_added
              /\ ~last'.hourly => long' = long
         ELSE UNCHANGED tables]_vars


(***************************************************************************)
(* SpecReduce: _reduce_statistics on the hourly rows of one statistic, for *)
(* day, week and month buckets in UTC and in a zone whose clocks are set   *)
(* back                                                                    *)
(***************************************************************************)
\* hourly rows in a list handed to _reduce_statistics
MaxReduceRows == 2

ReducePeriods ==
    {"day", "week", "month", "local day", "local week", "local month"}

\* starts of hourly rows: the first hour after H, the first hour of the
\* week the clocks are set back in, the first and the 25th hour of the day
\* they are set back, the first hour of the next day, the 745th hour of the
\* first month and the first hour of the second
ReduceStarts ==
    { 0, (FallBackDay - 6) * Day, FallBackDay * Day, (FallBackDay + 1) * Day,
      (FallBackDay + 1) * Day + LongTermDuration,
      31 * Day, 31 * Day + LongTermDuration }

RECURSIVE HourlyList(_)
\* the rows of the given starts as statistics_during_period(period="hour")
\* lists them: ascending by start
HourlyList(starts) ==
    IF starts = {} THEN <<>>
    ELSE LET first == CHOOSE t \in starts : \A u \in starts : t <= u
         IN  << [start |-> first, end |-> first + LongTermDuration,
                 mean |-> R(first \div LongTermDuration),
                 sum |-> R(first \div LongTermDuration)] >>
             \o HourlyList(starts \ {first})

InitReduce ==
    /\ meta = {}
    /\ short = {}
    /\ long = {}
    /\ runs = {}
    /\ queue = <<>>
    /\ nops = 0
    /\ last = [op |-> "init"]
    /\ \E starts \in SUBSET ReduceStarts, period \in ReducePeriods :
         /\ starts # {}
         /\ Cardinality(starts) <= MaxReduceRows
         /\ job = [pc |-> "reduce",
                   stats |-> [statistic_id \in {"sensor.energy"} |->
                                 HourlyList(starts)],
                   period |-> period]

\* _reduce_statistics_per_day, _reduce_statistics_per_week,
\* _reduce_statistics_per_month
ReduceStatistics ==
    /\ job.pc = "reduce"
    /\ last.op = "init"
    /\ nops' = nops + 1
    /\ last' = [op |-> "_reduce_statistics", period |-> job.period,
                result |-> _reduce_statistics(job.stats, job.period,
                                              {"mean", "sum"})]
    /\ UNCHANGED <<tables, queue, job>>

NextReduce == ReduceStatistics

SpecReduce == InitReduce /\ [][NextReduce]_vars

\* the starts of the periods that hold a row of the list
PeriodsWithRows(stat_list, period) ==
    { PeriodStartEnd(period, stat_list[i].start).start : i \in DOMAIN stat_list }

\* one output row for each period of the set, in ascending order, with the
\* bounds period_start_end gives
OneRowPerPeriod(rows, periods, period) ==
    /\ Len(rows) = Cardinality(periods)
    /\ {rows[i].start : i \in DOMAIN rows} = periods
    /\ \A i \in DOMAIN rows :
         /\ rows[i].end = PeriodStartEnd(period, rows[i].start).end
         /\ i > 1 => rows[i - 1].start < rows[i].start

ReducedList == last.op = "_reduce_statistics"

\* C35: for every statistic _reduce_statistics emits exactly one row for
\* each period that holds at least one input row, in ascending order, the
\* period of the last input row included, also when the local period is
\* longer than the nominal length passed in (a 25-hour day, a 169-hour
\* week, a 745-hour month)
C35_OneRowPerPeriodWithRows ==
    ReducedList =>
      \A statistic_id \in DOMAIN job.stats :
        OneRowPerPeriod(last.result[statistic_id],
                        PeriodsWithRows(job.stats[statistic_id], job.period),
                        job.period)

\* the same for periods that are not longer than the nominal length: the
\* UTC buckets, and the local buckets when the last row does not lie in a
\* period the set-back lengthens
LastRowInLongPeriod ==
    LET stat_list == job.stats["sensor.energy"]
        bounds == PeriodStartEnd(job.period, stat_list[Len(stat_list)].start)
    IN  bounds.end - bounds.start > PeriodSeconds(job.period)

OneRowPerPeriodOfNominalLength ==
    (ReducedList /\ ~LastRowInLongPeriod) =>
      \A statistic_id \in DOMAIN job.stats :
        OneRowPerPeriod(last.result[statistic_id],
                        PeriodsWithRows(job.stats[statistic_id], job.period),
                        job.period)


(***************************************************************************)
(* SpecList: async_list_statistic_ids, answered from the cache of the      *)
(* metadata manager or by list_statistic_ids from the database and the     *)
(* platforms.  job.cache holds the descriptors the manager has cached,     *)
(* job.platform those the platforms report, job.state the unit of the      *)
(* live entities.  The name of a descriptor is carried through unchanged   *)
(* by both paths and is left out.                                          *)
(***************************************************************************)
\* descriptors stored and cache resets before the list is asked for
MaxListSetup == 3

\* statistic_ids=None
NoneIds == {"None"}

GasMeta(unit) ==
    [statistic_id |-> "sensor.gas", source |-> DOMAIN_RECORDER,
     unit_of_measurement |-> unit, has_mean |-> TRUE, has_sum |-> TRUE]

\* get_display_unit: states maps a statistic_id to "NoState" or to the unit
\* of its state
get_display_unit(states, statistic_id, statistic_unit) ==
    IF ValidUnits(statistic_unit) = {} THEN statistic_unit
    ELSE LET state_unit == StateUnit(states[statistic_id], statistic_unit)
         IN  IF \/ state_unit = statistic_unit
                \/ state_unit \notin ValidUnits(statistic_unit)
             THEN statistic_unit
             ELSE state_unit

\* _statistic_by_id_from_metadata followed by
\* _flatten_list_statistic_ids_metadata_result: the entries of the list
_statistic_by_id_from_metadata(states, metadata) ==
    { [statistic_id |-> m.statistic_id,
       display_unit_of_measurement |->
           get_display_unit(states, m.statistic_id, m.unit_of_measurement),
       has_mean |-> m.has_mean,
       has_sum |-> m.has_sum,
       source |-> m.source,
       statistics_unit_of_measurement |-> m.unit_of_measurement,
       unit_class |-> UnitClass(m.unit_of_measurement)] : m \in metadata }

\* the entry list_statistic_ids makes of a descriptor reported by a platform
PlatformEntry(d) ==
    [statistic_id |-> d.statistic_id,
     display_unit_of_measurement |-> d.unit_of_measurement,
     has_mean |-> d.has_mean,
     has_sum |-> d.has_sum,
     source |-> d.source,
     statistics_unit_of_measurement |-> d.unit_of_measurement,
     unit_class |-> UnitClass(d.unit_of_measurement)]

\* statistic_type is "None", "mean" or "sum"
OfType(d, statistic_type) ==
    /\ statistic_type = "mean" => d.has_mean
    /\ statistic_type = "sum" => d.has_sum

\* statistics_meta_manager.get_many(session, statistic_type=...,
\* statistic_ids=...)
get_many_of_type(metaTable, statistic_ids, statistic_type) ==
    {m \in metaTable :
       /\ statistic_ids # NoneIds => m.statistic_id \in statistic_ids
       /\ OfType(m, statistic_type)}

\* statistics_meta_manager.get_from_cache_threadsafe(statistic_ids)
get_from_cache_threadsafe(cache, statistic_ids) ==
    {m \in cache : m.statistic_id \in statistic_ids}

\* platform.list_statistic_ids(hass, statistic_ids=..., statistic_type=...)
platform_list_statistic_ids(platform, statistic_ids, statistic_type) ==
    {d \in platform :
       /\ statistic_ids # NoneIds => d.statistic_id \in statistic_ids
       /\ OfType(d, statistic_type)}

list_statistic_ids(db, platform, states, statistic_ids, statistic_type) ==
    LET metadata == get_many_of_type(db.meta, statistic_ids, statistic_type)
        result == _statistic_by_id_from_metadata(states, metadata)
        reported == platform_list_statistic_ids(platform, statistic_ids,
                                                statistic_type)
    IN  IF statistic_ids = NoneIds
           \/ statistic_ids \ {e.statistic_id : e \in result} # {}
        THEN result
             \cup {PlatformEntry(d) : d \in
                     {x \in reported :
                        \A e \in result : e.statistic_id # x.statistic_id}}
        ELSE result

\* async_list_statistic_ids: the list and the path that gave it
async_list_statistic_ids(db, cache, platform, states, statistic_ids, statistic_type) ==
    LET metadata == get_from_cache_threadsafe(cache, statistic_ids)
    IN  IF /\ statistic_ids # NoneIds
           /\ statistic_ids \ {m.statistic_id : m \in metadata} = {}
        THEN [path |-> "cache",
              result |-> _statistic_by_id_from_metadata(states, metadata)]
        ELSE [path |-> "database",
              result |-> list_statistic_ids(db, platform, states,
                                            statistic_ids, statistic_type)]

ListDescriptors == {EnergyMeta("kWh"), PowerMeta, GasMeta("m3")}

\* what the platforms report: sensor.energy in the unit of its state, and a
\* sensor that has no descriptor in the database yet
ListPlatforms ==
    { {}, {EnergyMeta("Wh")},
      {EnergyMeta("Wh"), [GasMeta("m3") EXCEPT !.statistic_id = "sensor.new"]} }

ListIds ==
    { NoneIds, {"sensor.energy"}, {"sensor.power"},
      {"sensor.energy", "sensor.power"}, {"sensor.energy", "sensor.new"} }

ListStates(state) ==
    [statistic_id \in {"sensor.energy", "sensor.power", "sensor.gas",
                       "sensor.new"} |->
        IF statistic_id = "sensor.energy" THEN state ELSE "NoState"]

Unlisted == last.op # "async_list_statistic_ids"

\* a writer stores a descriptor: the manager adds it to the table and to
\* its cache
ListAddMetadata ==
    /\ job.pc = "list"
    /\ Unlisted
    /\ nops < MaxListSetup
    /\ \E d \in ListDescriptors :
         /\ \A m \in meta : m.statistic_id # d.statistic_id
         /\ \E out \in {update_or_add(meta, d, meta)} :
              /\ meta' = out.meta
              /\ job' = [job EXCEPT !.cache =
                           @ \cup {m \in out.meta : m.id = out.metadata_id}]
    /\ nops' = nops + 1
    /\ last' = [op |-> "update_or_add"]
    /\ UNCHANGED <<short, long, runs, queue>>

\* statistics_meta_manager.reset(): the cache is emptied, the table stays
ListResetCache ==
    /\ job.pc = "list"
    /\ Unlisted
    /\ nops < MaxListSetup
    /\ job.cache # {}
    /\ job' = [job EXCEPT !.cache = {}]
    /\ nops' = nops + 1
    /\ last' = [op |-> "reset"]
    /\ UNCHANGED <<tables, queue>>

AsyncListStatisticIds ==
    /\ job.pc = "list"
    /\ Unlisted
    /\ \E statistic_ids \in ListIds, statistic_type \in {"None", "mean", "sum"} :
       \E out \in {async_list_statistic_ids(Db, job.cache, job.platform,
                                            ListStates(job.state),
                                            statistic_ids, statistic_type)} :
         last' = [op |-> "async_list_statistic_ids",
                  statistic_ids |-> statistic_ids,
                  statistic_type |-> statistic_type,
                  path |-> out.path, result |-> out.result]
    /\ nops' = nops + 1
    /\ UNCHANGED <<tables, queue, job>>

InitList ==
    /\ meta = {}
    /\ short = {}
    /\ long = {}
    /\ runs = {}
    /\ queue = <<>>
    /\ nops = 0
    /\ last = [op |-> "init"]
    /\ \E platform \in ListPlatforms, state \in {"NoState", "Wh"} :
         job = [pc |-> "list", cache |-> {}, platform |-> platform,
                state |-> state]

NextList ==
    \/ ListAddMetadata
    \/ ListResetCache
    \/ AsyncListStatisticIds

SpecList == InitList /\ [][NextList]_vars

Listed == last.op = "async_list_statistic_ids"

\* what list_statistic_ids returns for the request of the last call
DatabaseList ==
    list_statistic_ids(Db, job.platform, ListStates(job.state),
                       last.statistic_ids, last.statistic_type)

\* C36: async_list_statistic_ids returns the same list from the cache of
\* the metadata manager as list_statistic_ids returns from the database,
\* for every combination of statistic_ids and statistic_type
C36_CachePathEqualsDatabasePath ==
    (Listed /\ last.path = "cache") => last.result = DatabaseList

\* the same when no statistic_type is given
CachePathEqualsDatabasePathForAnyType ==
    (Listed /\ last.path = "cache" /\ last.statistic_type = "None")
      => last.result = DatabaseList

\* in the database path the descriptor get_many found for an id goes
\* before the descriptor a platform reports for that id
DatabaseDescriptorHasPriority ==
    (Listed /\ last.path = "database") =>
      \A m \in get_many_of_type(meta, last.statistic_ids, last.statistic_type) :
        \A e \in last.result :
          e.statistic_id = m.statistic_id
            => e.statistics_unit_of_measurement = m.unit_of_measurement


(***************************************************************************)
(* SpecMetadata: UpdateStatisticsMetadataTask on descriptors the recorder  *)
(* and an external source have stored                                      *)
(***************************************************************************)
\* descriptors stored and metadata updates run
MaxMetadataOps == 3

\* homeassistant.helpers.typing.UNDEFINED
UNDEFINED == "UNDEFINED"

\* the unique index on statistic_id of statistics_meta
UniqueStatisticId(metaTable) ==
    \A m1, m2 \in metaTable : m1.statistic_id = m2.statistic_id => m1.id = m2.id

\* statistics_meta_manager.update_statistic_id(session, source,
\* old_statistic_id, new_statistic_id): the descriptor of that source is
\* renamed
update_statistic_id(metaTable, source, old_statistic_id, new_statistic_id) ==
    { IF m.statistic_id = old_statistic_id /\ m.source = source
      THEN [m EXCEPT !.statistic_id = new_statistic_id] ELSE m : m \in metaTable }

\* session_scope(..., exception_filter=_filter_unique_constraint_integrity_
\* error(instance)) around update_statistic_id: a rename that violates the
\* unique index is rolled back and the error is swallowed
RenameScope(metaTable, statistic_id, new_statistic_id) ==
    LET renamed == update_statistic_id(metaTable, DOMAIN_RECORDER, statistic_id,
                                       new_statistic_id)
    IN  IF UniqueStatisticId(renamed) THEN renamed ELSE metaTable

\* update_statistics_metadata: the descriptors after the two session scopes
update_statistics_metadata(metaTable, statistic_id, new_statistic_id, new_unit_of_measurement) ==
    LET with_unit == IF new_unit_of_measurement # UNDEFINED
                     THEN update_unit_of_measurement(metaTable, statistic_id,
                                                     new_unit_of_measurement)
                     ELSE metaTable
    IN  IF new_statistic_id \notin {UNDEFINED, "None"}
        THEN RenameScope(with_unit, statistic_id, new_statistic_id)
        ELSE with_unit

MetadataDescriptors == {EnergyMeta("kWh"), PowerMeta, GridMeta}

\* a writer stores a descriptor
MetadataAdd ==
    /\ job.pc = "metadata"
    /\ nops < MaxMetadataOps
    /\ \E d \in MetadataDescriptors :
         /\ \A m \in meta : m.statistic_id # d.statistic_id
         /\ meta' = update_or_add(meta, d, meta).meta
    /\ nops' = nops + 1
    /\ last' = [op |-> "update_or_add"]
    /\ UNCHANGED <<short, long, runs, queue, job>>

\* UpdateStatisticsMetadataTask.run
RunUpdateStatisticsMetadataTask ==
    /\ job.pc = "metadata"
    /\ nops < MaxMetadataOps
    /\ \E statistic_id \in {"sensor.energy", "grid:energy", "sensor.unknown"} :
       \E new_statistic_id \in {UNDEFINED, "None", "sensor.power", "sensor.renamed"} :
       \E new_unit_of_measurement \in {UNDEFINED, "None", "Wh"} :
         /\ meta' = update_statistics_metadata(meta, statistic_id,
                                               new_statistic_id,
                                               new_unit_of_measurement)
         /\ last' = [op |-> "update_statistics_metadata",
                     statistic_id |-> statistic_id,
                     new_statistic_id |-> new_statistic_id,
                     new_unit_of_measurement |-> new_unit_of_measurement]
    /\ nops' = nops + 1
    /\ UNCHANGED <<short, long, runs, queue, job>>

InitMetadata ==
    /\ meta = {}
    /\ short = {}
    /\ long = {}
    /\ runs = {}
    /\ queue = <<>>
    /\ nops = 0
    /\ last = [op |-> "init"]
    /\ job = [pc |-> "metadata"]

NextMetadata ==
    \/ MetadataAdd
    \/ RunUpdateStatisticsMetadataTask

SpecMetadata == InitMetadata /\ [][NextMetadata]_vars

\* the task ran with a new unit and a new statistic_id
UpdatedBoth ==
    /\ Ran("update_statistics_metadata")
    /\ last'.new_statistic_id \notin {UNDEFINED, "None"}
    /\ last'.new_unit_of_measurement # UNDEFINED

\* the descriptor m of the statistic has another unit, another statistic_id
\* after the step
UnitChanged(m) ==
    \E n \in meta' : n.id = m.id /\ n.unit_of_measurement # m.unit_of_measurement

Renamed(m) ==
    \E n \in meta' : n.id = m.id /\ n.statistic_id # m.statistic_id

\* C37: update_statistics_metadata called with both a new unit and a new
\* statistic_id applies both changes or neither: the unit of the descriptor
\* is never changed without the statistic_id being renamed
C37_UnitAndIdChangeTogether ==
    [][UpdatedBoth =>
         \A m \in meta :
           (m.statistic_id = last'.statistic_id /\ UnitChanged(m))
             => Renamed(m)]_vars

\* a rename never happens without the unit being set
RenameComesWithUnit ==
    [][UpdatedBoth =>
         \A m \in meta :
           Renamed(m) => \E n \in meta' :
             /\ n.id = m.id
             /\ n.unit_of_measurement = last'.new_unit_of_measurement]_vars


(***************************************************************************)
(* SpecCleanup: the chain of StatisticsTimestampMigrationCleanupTask.      *)
(* job.rows counts the rows of each statistics table, job.legacy those     *)
(* whose legacy start column is not NULL; job.indexes are the indexes on   *)
(* the legacy start columns                                                *)
(***************************************************************************)
\* rows the writers add while the chain runs
MaxCleanupInserts == 1

\* LIMIT 250000 of the UPDATE statements
CleanupLimit == 250000

\* db_schema.STATISTICS_TABLES
STATISTICS_TABLES == <<"statistics", "statistics_short_term">>

StartIndexes == {"ix_statistics_start", "ix_statistics_short_term_start"}

StatisticsTimestampMigrationCleanupTask ==
    MigrationTask("StatisticsTimestampMigrationCleanupTask")

\* UPDATE table set start=NULL, created=NULL, last_reset=NULL where start
\* is not NULL LIMIT 250000: the rowcount
LimitedUpdateRowcount(legacy, table) ==
    IF legacy[table] < CleanupLimit THEN legacy[table] ELSE CleanupLimit

RECURSIVE CleanupLoop(_, _)
\* the loop over STATISTICS_TABLES on MySQL and PostgreSQL: returns False
\* from inside the session scope of the first table with a rowcount, which
\* commits on the way out
CleanupLoop(legacy, i) ==
    IF i > Len(STATISTICS_TABLES) THEN [legacy |-> legacy, returned |-> "None"]
    ELSE LET table == STATISTICS_TABLES[i]
             rowcount == LimitedUpdateRowcount(legacy, table)
         IN  IF rowcount # 0
             THEN [legacy |-> [legacy EXCEPT ![table] = @ - rowcount],
                   returned |-> "False"]
             ELSE CleanupLoop(legacy, i + 1)

\* mutant: the loop goes on to the next table after a batch
cleanup_statistics_timestamp_migration_no_return(dialect, legacy, indexes) ==
    IF dialect = "sqlite"
    THEN [legacy |-> [table \in DOMAIN legacy |-> 0],
          indexes |-> indexes \ StartIndexes, returned |-> "True"]
    ELSE [legacy |-> [table \in DOMAIN legacy |->
                         legacy[table] - LimitedUpdateRowcount(legacy, table)],
          indexes |-> indexes \ StartIndexes, returned |-> "True"]

\* cleanup_statistics_timestamp_migration: the legacy rows and indexes it
\* leaves and what it returns
cleanup_statistics_timestamp_migration(dialect, legacy, indexes) ==
    IF dialect = "sqlite"
    THEN [legacy |-> [table \in DOMAIN legacy |-> 0],
          indexes |-> indexes \ StartIndexes, returned |-> "True"]
    ELSE LET out == CleanupLoop(legacy, 1)
         IN  IF out.returned = "False"
             THEN [legacy |-> out.legacy, indexes |-> indexes,
                   returned |-> "False"]
             ELSE [legacy |-> out.legacy, indexes |-> indexes \ StartIndexes,
                   returned |-> "True"]

\* StatisticsTimestampMigrationCleanupTask.run
RunStatisticsTimestampMigrationCleanupTask ==
    /\ job.pc = "cleanup"
    /\ queue # <<>>
    /\ \E out \in {cleanup_statistics_timestamp_migration(
                       job.dialect, job.legacy, job.indexes)} :
         /\ job' = [job EXCEPT !.legacy = out.legacy, !.indexes = out.indexes]
         /\ last' = [op |-> "StatisticsTimestampMigrationCleanupTask",
                     returned |-> out.returned]
         /\ queue' = QueueSuccessor(queue,
                                    StatisticsTimestampMigrationCleanupTask,
                                    out.returned)
    /\ nops' = nops + 1
    /\ UNCHANGED tables

\* a writer of the migrated schema adds a row: its legacy columns are NULL
CleanupInsert ==
    /\ job.pc = "cleanup"
    /\ job.inserts < MaxCleanupInserts
    /\ \E table \in DOMAIN job.rows :
         job' = [job EXCEPT !.rows[table] = @ + 1, !.inserts = @ + 1]
    /\ last' = [op |-> "insert"]
    /\ UNCHANGED <<tables, queue, nops>>

CleanupCounts == {0, 1, CleanupLimit, CleanupLimit + 1, 2 * CleanupLimit + 1}

\* the migration queued the first task of the chain
InitCleanup ==
    /\ meta = {}
    /\ short = {}
    /\ long = {}
    /\ runs = {}
    /\ queue = <<StatisticsTimestampMigrationCleanupTask>>
    /\ nops = 0
    /\ last = [op |-> "init"]
    /\ \E dialect \in Dialects :
       \E n \in CleanupCounts, m \in CleanupCounts :
         job = [pc |-> "cleanup", dialect |-> dialect,
                rows |-> [statistics |-> n, statistics_short_term |-> m],
                legacy |-> [statistics |-> n, statistics_short_term |-> m],
                indexes |-> StartIndexes, inserts |-> 0]

NextCleanup ==
    \/ RunStatisticsTimestampMigrationCleanupTask
    \/ CleanupInsert

\* the recorder thread takes the task at the head of its queue
SpecCleanup ==
    /\ InitCleanup
    /\ [][NextCleanup]_vars
    /\ WF_vars(RunStatisticsTimestampMigrationCleanupTask)

\* rows of the table whose legacy columns the step blanked
Blanked(table) == job.legacy[table] - job'.legacy[table]

CleanupRan == Ran("StatisticsTimestampMigrationCleanupTask")

\* one call on MySQL or PostgreSQL
BatchedCall ==
    /\ \A table \in DOMAIN job.legacy :
         /\ Blanked(table) >= 0
         /\ Blanked(table) <= CleanupLimit
    /\ \A t1, t2 \in DOMAIN job.legacy :
         (Blanked(t1) > 0 /\ Blanked(t2) > 0) => t1 = t2
    /\ (\E table \in DOMAIN job.legacy : Blanked(table) > 0)
         => /\ last'.returned = "False"
            /\ queue' = Append(Tail(queue), StatisticsTimestampMigrationCleanupTask)
    /\ last'.returned = "True"
         <=> \A table \in DOMAIN job.legacy : job.legacy[table] = 0
    /\ last'.returned = "True"
         => job'.indexes = {} /\ queue' = Tail(queue)
    /\ last'.returned # "True" => job'.indexes = job.indexes

\* the one call on SQLite
UnbatchedCall ==
    /\ \A table \in DOMAIN job.legacy : job'.legacy[table] = 0
    /\ last'.returned = "True"
    /\ job'.indexes = {}
    /\ queue' = Tail(queue)

\* C38: on MySQL and PostgreSQL each call of
\* cleanup_statistics_timestamp_migration blanks the legacy columns of at
\* most 250000 rows of one table and returns False whenever it blanked a
\* row, so that the task queues itself again; it returns True and drops the
\* legacy start indexes only in a call in which no statistics table has a
\* row left with a non-null legacy start; on SQLite a single call blanks all
\* rows and returns True.  The chain of cleanup tasks terminates
C38_CleanupInBatchesAndTerminates ==
    /\ [][CleanupRan =>
            IF job.dialect = "sqlite" THEN UnbatchedCall ELSE BatchedCall]_vars
    /\ <>[](queue = <<>>)

C38_Witness ==
    /\ job.dialect = "mysql"
    /\ queue = <<>>
    /\ nops = 6
    /\ job.indexes = {}
    /\ last.op = "StatisticsTimestampMigrationCleanupTask"
    /\ last.returned = "True"
    /\ \A table \in DOMAIN job.legacy : job.legacy[table] = 0
    /\ job.rows.statistics = 2 * CleanupLimit + 1

C38_WitnessSqlite ==
    /\ job.dialect = "sqlite"
    /\ queue = <<>>
    /\ nops = 1
    /\ job.rows.statistics = 2 * CleanupLimit + 1
    /\ job.legacy.statistics = 0


(***************************************************************************)
(* SpecLock: JarvisLockEntity (components/jarvis/lock.py).  job._state is  *)
(* the entity's _state, job.poller tells whether the state_poller task is  *)
(* still running, job.updates counts async_schedule_update_ha_state        *)
(***************************************************************************)
\* service calls and polls
MaxLockOps == 4

\* class Status
Status ==
    {"Unlocked", "Locked", "Locking", "Unlocking", "Jammed", "Error"}

is_unlocking == job._state = "Unlocking"

available == job._state # "Error"

\* what a request can come to: a response with a success status, an
\* httpx.RequestError (no response), or another exception, as the
\* httpx.HTTPStatusError of raise_for_status on a 4xx or 5xx response
RequestOutcomes == {"ok", "RequestError", "HTTPStatusError"}

\* what the poll of /door can come to: a body with one of these states, a
\* body that is not JSON, a body without "state", or a failed request
PollOutcomes ==
    {"locked", "unlocked", "jammed", "unknown", "locking", "JSONDecodeError",
     "KeyError", "RequestError", "HTTPStatusError"}

\* the try block of async_lock and async_unlock: the new _state and whether
\* the exception is raised again
Requested(outcome) ==
    IF outcome = "ok" THEN [_state |-> "Locking", raised |-> FALSE]
    ELSE IF outcome = "RequestError" THEN [_state |-> "Error", raised |-> FALSE]
    ELSE [_state |-> "Error", raised |-> TRUE]

\* async_lock
async_lock ==
    /\ nops < MaxLockOps
    /\ \E outcome \in RequestOutcomes :
       \E out \in {Requested(outcome)} :
         /\ job' = [job EXCEPT !._state = out._state,
                               !.updates = IF out.raised THEN @ ELSE @ + 1]
         /\ last' = [op |-> "async_lock", outcome |-> outcome,
                     raised |-> out.raised]
    /\ nops' = nops + 1
    /\ UNCHANGED <<tables, queue>>

\* async_unlock
async_unlock ==
    /\ nops < MaxLockOps
    /\ \E outcome \in RequestOutcomes :
       \E out \in {Requested(outcome)} :
         /\ job' = [job EXCEPT !._state = out._state,
                               !.updates = IF out.raised THEN @ ELSE @ + 1]
         /\ last' = [op |-> "async_unlock", outcome |-> outcome,
                     raised |-> out.raised]
    /\ nops' = nops + 1
    /\ UNCHANGED <<tables, queue>>

\* the try block of state_poller: the local state and whether the exception
\* is raised again
Polled(outcome) ==
    IF outcome = "locked" THEN [state |-> "Locked", raised |-> FALSE]
    ELSE IF outcome = "unlocked" THEN [state |-> "Unlocked", raised |-> FALSE]
    ELSE IF outcome = "jammed" THEN [state |-> "Jammed", raised |-> FALSE]
    ELSE IF outcome \in {"unknown", "locking", "RequestError", "JSONDecodeError"}
    THEN [state |-> "Error", raised |-> FALSE]
    ELSE [state |-> "Error", raised |-> TRUE]

\* one turn of the loop of state_poller: an exception that is raised again
\* leaves the loop before _state is assigned and ends the task
state_poller ==
    /\ nops < MaxLockOps
    /\ job.poller = "running"
    /\ \E outcome \in PollOutcomes :
       \E out \in {Polled(outcome)} :
         /\ job' = IF out.raised THEN [job EXCEPT !.poller = "ended"]
                   ELSE IF job._state # out.state
                   THEN [job EXCEPT !._state = out.state, !.updates = @ + 1]
                   ELSE job
         /\ last' = [op |-> "state_poller", outcome |-> outcome,
                     raised |-> out.raised]
    /\ nops' = nops + 1
    /\ UNCHANGED <<tables, queue>>

\* JarvisLockEntity.__init__
InitLock ==
    /\ meta = {}
    /\ short = {}
    /\ long = {}
    /\ runs = {}
    /\ queue = <<>>
    /\ nops = 0
    /\ last = [op |-> "init"]
    /\ job = [pc |-> "lock", _state |-> "Error", poller |-> "running",
              updates |-> 0]

NextLock ==
    \/ async_lock
    \/ async_unlock
    \/ state_poller

SpecLock == InitLock /\ [][NextLock]_vars

\* the request of the step failed, or the poll gave a state that is none of
\* locked, unlocked and jammed
FailedOrUnrecognised ==
    /\ nops' = nops + 1
    /\ last'.outcome \notin {"ok", "locked", "unlocked", "jammed"}

\* C39: a successful async_unlock sets the state to Locking, no operation
\* ever sets it to Unlocking (is_unlocking is false in every reachable
\* state), and any failed request or unrecognised polled state leaves the
\* state Error, the entity unavailable
C39_UnlockLocksAndFailuresGiveError ==
    /\ [](~is_unlocking)
    /\ [][(Ran("async_unlock") /\ last'.outcome = "ok")
            => job'._state = "Locking"]_vars
    /\ [][FailedOrUnrecognised => job'._state = "Error"]_vars

\* the parts of it that hold: the state is never Unlocking and a successful
\* async_unlock gives Locking
NeverUnlockingAndUnlockGivesLocking ==
    /\ [](~is_unlocking)
    /\ [][(Ran("async_unlock") /\ last'.outcome = "ok")
            => job'._state = "Locking"]_vars

\* a failure leaves Error unless state_poller raises the exception again
FailuresGiveErrorUnlessPollerRaises ==
    [][(FailedOrUnrecognised /\ ~(last'.op = "state_poller" /\ last'.raised))
         => (job'._state = "Error" /\ ~available')]_vars

====
